---- MODULE Spec2Model ----
(***************************************************************************)
(* Model of the skymsg client link (pkg/skymsg/client.go): the channel     *)
(* table, channel-ID allocation, the reader loop Link.Serve and the shared *)
(* accept queue of the owning Client (specification Spec); of two clients  *)
(* exchanging bytes over transports relayed by one server (SpecRelay); of  *)
(* one link from NewLink to Link.Close (SpecLife); of the Client and its   *)
(* link map (SpecClient, SpecClientLive); of the server's map of links     *)
(* (SpecServer); of the calls on one channel (SpecChan); of the route      *)
(* manager and its routing table (SpecRoute, SpecSetup); and of one App    *)
(* and its table of connections (SpecApp).                                 *)
(***************************************************************************)
EXTENDS Integers, Sequences, FiniteSets, TLC

\* ------------------------------------------------------------------ bounds

\* Width of a channel ID in the model (uint16 in the program).
IDBits == 2
\* Number of Link.Dial calls explored.
MaxDials == 3
\* Number of callers that may wait in Client.Accept at once.
MaxAcceptors == 1
\* Number of transports dialed between the two clients of the relay model.
NumTr == 2
\* Number of bytes written on one transport.
MaxBytes == 2
\* Largest payload of a Data frame in the model (2^16-1 in the protocol).
MaxPayload == 1
\* Capacity, in bytes, of the inbound queue of a channel.
QueueCap == 1
\* Number of frames a connection holds in one direction.
LinkCap == 2
\* Number of concurrent callers of Link.Dial on the link whose life is followed.
MaxDialers == 2
\* Number of frames Link.Serve reads on that link.
MaxFrames == 2
\* Largest argument n of Client.InitiateLinks.
MaxN == 1
\* Number of Client.InitiateLinks calls.
MaxInitCalls == 1
\* Number of Client.Dial calls.
MaxClientDials == 1
\* Number of callers of Client.Close.
MaxClosers == 2
\* Number of connections the server accepts.
MaxConns == 3
\* Number of channels open on one link of the server.
MaxChans == 2

\* Number of Server.close calls explored.
MaxSrvCloses == 2

\* Number of Channel.write calls explored.
MaxChWrites == 3
\* Number of Channel.close calls explored.
MaxChCloses == 2

\* Number of route IDs of the routing table.
MaxRules == 2
\* The latest time; rules expire at a time from 0 up to it.
MaxTime == 1

\* Number of callers of ManagedTransport.Close.
MaxMtClosers == 2

\* ------------------------------------------------------------ program data

RECURSIVE Pow2(_)
Pow2(n) == IF n = 0 THEN 1 ELSE 2 * Pow2(n - 1)

\* Number of values of the ID type; arithmetic on IDs is modulo IDSpace.
IDSpace == Pow2(IDBits)
\* math.MaxUint16: the length of the array Link.chans.
MaxUint16 == IDSpace - 1
IDs == 0 .. (IDSpace - 1)
\* Valid indices of Link.chans.
Slots == 0 .. (MaxUint16 - 1)

\* Public keys. ZeroPK is the zero value cipher.PubKey{}.
ZeroPK == "pk0"
ClientPK == "pkA"
PeerPK == "pkB"

\* The nil pointer.
Nil == [nil |-> TRUE]

RequestType == "Request"
AcceptType == "Accept"
CloseType == "Close"
DataType == "Data"
FrameTypes == {RequestType, AcceptType, CloseType, DataType}

\* MakeFrame(CloseType, id, []byte{0})
MakeFrame(ft, id, p) == [ft |-> ft, id |-> id, p |-> p]

\* Request payloads put on the wire by the peer; each element of a payload
\* stands for one public-key sized block of bytes.
Payloads ==
    { <<>>, <<PeerPK>>, <<PeerPK, ZeroPK>>, <<PeerPK, ClientPK>>,
      <<PeerPK, ZeroPK, ZeroPK>> }

\* Payload of the frames whose payload Link.Serve does not look at.
NoPayload == <<>>

isEven(id) == id % 2 = 0

\* splitPKs: the payload must be exactly two public keys.
splitPKs(p) ==
    IF Len(p) = 2
    THEN [initPK |-> p[1], respPK |-> p[2], ok |-> TRUE]
    ELSE [initPK |-> ZeroPK, respPK |-> ZeroPK, ok |-> FALSE]

\* NewChannel(conn, local, remote, id)
NewChannel(local, remote, id) ==
    [id |-> id, local |-> local, remote |-> remote, done |-> FALSE]

IsDone(ch) == ch.done

\* NewLink(conn, remote): the field local is left at its zero value.
NewLinkLocal == ZeroPK

VARIABLES
    nextID,   \* Link.nextID
    chans,    \* Link.chans
    dialed,   \* channels handed out by Link.addChan, in call order
    addRes,   \* result of the latest Link.addChan call
    pc,       \* position of the reader loop Link.Serve
    pend,     \* locals of Link.Serve while it is blocked on the accept queue
    waiting,  \* callers blocked in Client.Accept
    got,      \* channel returned by the latest Client.Accept
    last,     \* the frame Link.Serve handled last and what it did
    \* --- two clients linked to one relay server
    eps,      \* the channel objects: one per transport and client
    tbl,      \* channel table of each client's link: ID -> transport
    cliNext,  \* next-ID cursor of each client's link
    srvNext,  \* next-ID cursor of the server on each link
    relay,    \* relay entries of the server: (client, ID) -> (client, ID)
    up,       \* frames in flight from each client to the server
    down,     \* frames in flight from the server to each client
    acceptQ,  \* accept queue of each client
    written,  \* number of bytes the writer has written on each transport
    readLog   \* bytes the reader has read from each transport, in order

\* --- one link from construction to Link.Close
VARIABLES
    conn,     \* Link.Conn: "open" or "closed"
    rd,       \* position of the goroutine that runs Link.Serve
    wg,       \* counter of Link.wg
    nread,    \* frames Link.Serve has read
    hs,       \* position of each caller of Link.Dial
    closer    \* position of the caller of Link.Close and what it saw

\* --- one Client: the link map, its mutex and the calls on the client
VARIABLES
    links,    \* Client.links: server key -> Link (NoLink: no entry)
    lobj,     \* the Links built by Client.newLink, in creation order
    cmx,      \* holder of the write lock of Client.mx
    il,       \* the latest Client.InitiateLinks call
    dl,       \* the latest Client.Dial call
    cl,       \* the callers of Client.Close
    acc,      \* Client.accept and the callers of Client.Accept
    disc,     \* the client's entry in the discovery service
    crashed   \* a goroutine has panicked

\* --- the server's map of links
VARIABLES
    conns,    \* the server's map: client key -> link (NoLink: no entry)
    slinks,   \* the links the server has accepted, in the order accepted
    server    \* the server: closed or not, and the Server.close calls made
\* --- one channel and the calls of its owner
VARIABLES
    chn,      \* the channel: its state, whether it was closed locally, its slot
    chOut,    \* the frames the channel has emitted on its ID, in order
    chRes,    \* the latest call on the channel and its result
    chCalls   \* the number of write and close calls made
\* --- the routing table and the calls on the route manager
VARIABLES
    rt,       \* the routing table: route ID -> rule (NoRule: no rule)
    now,      \* the time
    rmRes     \* the latest call on the route manager and its result; seq
              \* alternates between 0 and 1 from call to call
\* --- routeManager.Serve on one connection of the setup protocol
VARIABLES
    sv        \* the request in hand, the callback made for it, the response
\* --- one App and its connection to the node
VARIABLES
    appConns, \* App.conns and the connections: for each loop, whether it is in
              \* the table (bound) and the state of its connection
    appSent,  \* the number of FrameClose frames the App has sent for each loop
    appDone,  \* App.Close has been called
    appLast   \* the latest event on the App; seq alternates between 0 and 1
\* --- one ManagedTransport and the calls on it
VARIABLES
    mtMu,      \* ManagedTransport.mu: holder of the write lock, number of readers
    mtClosing, \* ManagedTransport.isClosing
    mtDone,    \* number of times doneChan has been closed
    mtOp,      \* the current Read call and the current Write call
    mtCl,      \* position of each caller of Close
    mtLast,    \* the latest IsClosing or updateTransport call that went through
    mtTr       \* ManagedTransport.Transport
\* --- one Router: its port manager, its static ports and one App
VARIABLES
    rPorts,    \* the port manager: for each port, whether it is bound and the
               \* remote addresses of its loops
    rStatic,   \* Router.staticPorts
    rApp,      \* position of Router.ServeApp for the App
    rRules,    \* the loops that have a rule in the routing table
    crRes      \* the latest Router.CreateLoop call and its result

linkVars == <<nextID, chans, dialed, addRes, pc, pend, waiting, got, last>>
relayVars ==
    <<eps, tbl, cliNext, srvNext, relay, up, down, acceptQ, written, readLog>>
lifeVars == <<conn, rd, wg, nread, hs, closer>>
clientVars == <<links, lobj, cmx, il, dl, cl, acc, disc, crashed>>
serverVars == <<conns, slinks, server>>
chanVars == <<chn, chOut, chRes, chCalls>>
routeVars == <<rt, now, rmRes>>
setupVars == <<sv>>
appVars == <<appConns, appSent, appDone, appLast>>
mtVars == <<mtMu, mtClosing, mtDone, mtOp, mtCl, mtLast, mtTr>>
routerVars == <<rPorts, rStatic, rApp, rRules, crRes>>
vars == <<linkVars, relayVars, lifeVars, clientVars, serverVars, chanVars, routeVars, setupVars, appVars, mtVars, routerVars>>

\* The variables outside each part of the model.
notLink == <<relayVars, lifeVars, clientVars, serverVars, chanVars, routeVars, setupVars, appVars, mtVars, routerVars>>
notRelay == <<linkVars, lifeVars, clientVars, serverVars, chanVars, routeVars, setupVars, appVars, mtVars, routerVars>>
notLife == <<linkVars, relayVars, clientVars, serverVars, chanVars, routeVars, setupVars, appVars, mtVars, routerVars>>
notClient == <<linkVars, relayVars, lifeVars, serverVars, chanVars, routeVars, setupVars, appVars, mtVars, routerVars>>
notServer == <<linkVars, relayVars, lifeVars, clientVars, chanVars, routeVars, setupVars, appVars, mtVars, routerVars>>
notChan == <<linkVars, relayVars, lifeVars, clientVars, serverVars, routeVars, setupVars, appVars, mtVars, routerVars>>
notRoute == <<linkVars, relayVars, lifeVars, clientVars, serverVars, chanVars, setupVars, appVars, mtVars, routerVars>>
notSetup == <<linkVars, relayVars, lifeVars, clientVars, serverVars, chanVars, routeVars, appVars, mtVars, routerVars>>
notRouteSetup == <<linkVars, relayVars, lifeVars, clientVars, serverVars, chanVars, appVars, mtVars, routerVars>>
notApp == <<linkVars, relayVars, lifeVars, clientVars, serverVars, chanVars, routeVars, setupVars, mtVars, routerVars>>
notMT == <<linkVars, relayVars, lifeVars, clientVars, serverVars, chanVars, routeVars, setupVars, appVars, routerVars>>
notRouter == <<linkVars, relayVars, lifeVars, clientVars, serverVars, chanVars, routeVars, setupVars, appVars, mtVars>>

\* ---------------------------------------------------------------- channel

\* Channel.AwaitRead(f) on a nil *Channel dereferences the receiver.
AwaitReadNil == [ok |-> FALSE, panic |-> TRUE, wrote |-> <<>>, done |-> FALSE]

\* Channel.AwaitRead(f): hands frame f to the channel. A channel that is done
\* takes nothing and reports false. A live channel created from a Request is
\* open: Request -> reply Close; Accept -> protocol violation, reply Close and
\* close; Data -> enqueue; Close -> the channel is closed.
AwaitRead(ch, ft) ==
    IF ch = Nil THEN AwaitReadNil
    ELSE IF IsDone(ch)
    THEN [ok |-> FALSE, panic |-> FALSE, wrote |-> <<>>, done |-> TRUE]
    ELSE CASE ft = RequestType ->
                [ok |-> TRUE, panic |-> FALSE,
                 wrote |-> <<MakeFrame(CloseType, ch.id, <<2>>)>>, done |-> FALSE]
           [] ft = AcceptType ->
                [ok |-> FALSE, panic |-> FALSE,
                 wrote |-> <<MakeFrame(CloseType, ch.id, <<2>>)>>, done |-> TRUE]
           [] ft = DataType ->
                [ok |-> TRUE, panic |-> FALSE, wrote |-> <<>>, done |-> FALSE]
           [] OTHER ->
                [ok |-> FALSE, panic |-> FALSE, wrote |-> <<>>, done |-> TRUE]

\* Channel.Handshake(ctx): writes the Request frame of a dialed channel and
\* waits for the answer.
Handshake(ch) ==
    [id |-> ch.id, local |-> ch.local, remote |-> ch.remote, done |-> ch.done,
     req |-> MakeFrame(RequestType, ch.id, <<ch.local, ch.remote>>)]

\* ------------------------------------------------------------------- link

\* Mutant of StepID: the cursor advances by one.
M_StepID(id) == (id + 1) % IDSpace

\* l.nextID += 2 and l.nextID = id + 2, in uint16 arithmetic.
StepID(id) == (id + 2) % IDSpace

\* The scan of Link.addChan from cursor n over table t; k counts the slots
\* visited. "panic": the cursor indexes past the array; "spin": every slot
\* visited holds a live channel, the loop goes on until ctx is done.
RECURSIVE scanChans(_, _, _)
scanChans(t, n, k) ==
    IF n \notin Slots THEN [res |-> "panic", id |-> n]
    ELSE IF t[n] = Nil \/ IsDone(t[n]) THEN [res |-> "ok", id |-> n]
    ELSE IF k >= IDSpace THEN [res |-> "spin", id |-> n]
    ELSE scanChans(t, StepID(n), k + 1)

\* Link.addChan: the ID it picks and the channel it returns. The channel is
\* returned to Link.Dial; l.chans is not written.
addChan(t, n, clientPK) ==
    LET r == scanChans(t, n, 0) IN
    IF r.res = "ok"
    THEN [err |-> "nil", id |-> r.id, nextID |-> StepID(r.id),
          ch |-> NewChannel(NewLinkLocal, clientPK, r.id),
          chans |-> t]
    ELSE [err |-> r.res, id |-> r.id, nextID |-> r.id, ch |-> Nil, chans |-> t]

\* Mutant of checkRequest: the responder key is not compared with local.
M_checkRequest(local, id, p) ==
    IF isEven(id) THEN [remote |-> ZeroPK, ok |-> FALSE]
    ELSE LET s == splitPKs(p) IN
         IF ~s.ok
         THEN [remote |-> ZeroPK, ok |-> FALSE]
         ELSE [remote |-> s.initPK, ok |-> TRUE]

\* checkRequest(local, id, p)
checkRequest(local, id, p) ==
    IF isEven(id) THEN [remote |-> ZeroPK, ok |-> FALSE]
    ELSE LET s == splitPKs(p) IN
         IF ~s.ok \/ s.respPK # local
         THEN [remote |-> ZeroPK, ok |-> FALSE]
         ELSE [remote |-> s.initPK, ok |-> TRUE]

\* Link.getChan(id): the slot's channel and whether it is live.
getChan(t, id) == [ch |-> t[id], ok |-> t[id] # Nil /\ ~IsDone(t[id])]

\* Link.delChan(id)
delChan(t, id) == [t EXCEPT ![id] = Nil]

\* Link.setChan(id, ch)
setChan(t, id, ch) == [t EXCEPT ![id] = ch]

\* Mutant of emptySlotReply: a Close is answered like any other frame.
M_emptySlotReply(ft, id) == <<MakeFrame(CloseType, id, <<0>>)>>

\* Mutant of refusedReply: the refusal falls through to the default case,
\* which writes a second Close.
M_refusedReply(id) ==
    <<MakeFrame(CloseType, id, <<0>>), MakeFrame(CloseType, id, <<0>>)>>

\* What Link.Serve writes back for a frame of type ft (not a Request) whose
\* slot holds no live channel: nothing for a Close, one Close otherwise.
emptySlotReply(ft, id) ==
    IF ft = CloseType THEN <<>> ELSE <<MakeFrame(CloseType, id, <<0>>)>>

\* What Link.Serve writes back for a Request that checkRequest refuses.
refusedReply(id) == <<MakeFrame(CloseType, id, <<0>>)>>

NoFrame == [ft |-> "none", id |-> 0, p |-> <<>>, ok |-> FALSE, wrote |-> <<>>,
            created |-> FALSE, res |-> "none"]

LinkInit ==
    /\ nextID = 0
    /\ chans = [i \in Slots |-> Nil]
    /\ dialed = <<>>
    /\ addRes = [id |-> 0, err |-> "none"]
    /\ pc = "read"
    /\ pend = Nil
    /\ waiting = 0
    /\ got = Nil
    /\ last = NoFrame

\* The process is running: no goroutine has panicked.
Alive == pc # "panic"

\* Link.Dial(ctx, clientPK): addChan, then Handshake on the returned channel.
Dial ==
    /\ Alive
    /\ Len(dialed) < MaxDials
    /\ LET r == addChan(chans, nextID, PeerPK) IN
       /\ addRes' = [id |-> r.id, err |-> r.err]
       /\ chans' = r.chans
       /\ IF r.err = "nil"
          THEN /\ nextID' = r.nextID
               /\ dialed' = Append(dialed, Handshake(r.ch))
               /\ pc' = pc
          ELSE IF r.err = "spin"
          THEN /\ nextID' \in {i \in IDs : isEven(i) = isEven(nextID)}
               /\ dialed' = dialed
               /\ pc' = pc
          ELSE /\ nextID' = r.nextID
               /\ dialed' = dialed
               /\ pc' = "panic"
    /\ UNCHANGED <<pend, waiting, got, last>>
    /\ UNCHANGED notLink

\* The context of a Link.Dial waiting in Handshake is cancelled: the dial
\* gives up and its channel is closed.
DialCancel(i) ==
    /\ Alive
    /\ i \in 1 .. Len(dialed)
    /\ ~dialed[i].done
    /\ dialed' = [dialed EXCEPT ![i].done = TRUE]
    /\ UNCHANGED <<nextID, chans, addRes, pc, pend, waiting, got, last>>
    /\ UNCHANGED notLink

\* One iteration of the loop of Link.Serve on the frame (ft, id, p) read from
\* the connection, up to the next readFrame or to the send on the accept
\* queue.
Serve(ft, id, p) ==
    /\ pc = "read"
    /\ IF id \notin Slots
       THEN \* l.chans[id]: index out of range
            /\ pc' = "panic"
            /\ last' = [ft |-> ft, id |-> id, p |-> p, ok |-> FALSE,
                        wrote |-> <<>>, created |-> FALSE, res |-> "panic"]
            /\ UNCHANGED <<chans, pend>>
       ELSE LET g == getChan(chans, id) IN
            IF ~g.ok
            THEN LET t == delChan(chans, id)
                     c == checkRequest(NewLinkLocal, id, p)
                 IN
                 IF ft = RequestType /\ c.ok
                 THEN LET new == NewChannel(NewLinkLocal, c.remote, id) IN
                      /\ chans' = setChan(t, id, new)
                      /\ pc' = "send"
                      /\ pend' = [id |-> id, ft |-> ft, ch |-> g.ch, new |-> new]
                      /\ last' = [ft |-> ft, id |-> id, p |-> p, ok |-> FALSE,
                                  wrote |-> <<>>, created |-> TRUE, res |-> "send"]
                 ELSE /\ chans' = t
                      /\ pc' = "read"
                      /\ pend' = pend
                      /\ last' = [ft |-> ft, id |-> id, p |-> p, ok |-> FALSE,
                                  wrote |-> IF ft = RequestType
                                            THEN refusedReply(id)
                                            ELSE emptySlotReply(ft, id),
                                  created |-> FALSE, res |-> "continue"]
            ELSE LET a == AwaitRead(g.ch, ft)
                     t == [chans EXCEPT ![id].done = a.done]
                 IN
                 /\ chans' = IF a.ok THEN t ELSE delChan(t, id)
                 /\ pc' = "read"
                 /\ pend' = pend
                 /\ last' = [ft |-> ft, id |-> id, p |-> p, ok |-> TRUE,
                             wrote |-> a.wrote, created |-> FALSE,
                             res |-> IF a.ok THEN "read" ELSE "deleted"]
    /\ UNCHANGED <<nextID, dialed, addRes, waiting, got>>
    /\ UNCHANGED notLink

\* A caller enters Client.Accept and waits on the accept queue.
AcceptCall ==
    /\ Alive
    /\ waiting < MaxAcceptors
    /\ waiting' = waiting + 1
    /\ UNCHANGED <<nextID, chans, dialed, addRes, pc, pend, got, last>>
    /\ UNCHANGED notLink

\* The context of a caller waiting in Client.Accept is done.
AcceptCancel ==
    /\ Alive
    /\ waiting > 0
    /\ waiting' = waiting - 1
    /\ UNCHANGED <<nextID, chans, dialed, addRes, pc, pend, got, last>>
    /\ UNCHANGED notLink

\* The send of Link.Serve on the unbuffered accept queue meets a caller of
\* Client.Accept, which returns the channel; Link.Serve goes on to
\* ch.AwaitRead(f) with ch as getChan returned it.
AcceptRecv ==
    /\ pc = "send"
    /\ waiting > 0
    /\ waiting' = waiting - 1
    /\ got' = pend.new
    /\ LET a == AwaitRead(pend.ch, pend.ft) IN
       IF a.panic
       THEN /\ pc' = "panic"
            /\ chans' = chans
            /\ last' = [last EXCEPT !.res = "panic"]
       ELSE /\ pc' = "read"
            /\ chans' = IF a.ok THEN chans ELSE delChan(chans, pend.id)
            /\ last' = [last EXCEPT !.wrote = a.wrote,
                                    !.res = IF a.ok THEN "read" ELSE "deleted"]
    /\ pend' = Nil
    /\ UNCHANGED <<nextID, dialed, addRes>>
    /\ UNCHANGED notLink

\* ------------------------------------------------- relay server and clients
\* Two clients, each with one link to the relay server, and the transports
\* dialed between them. The client ClientPK writes, the client PeerPK reads.

Clients == {ClientPK, PeerPK}
Transports == 1 .. NumTr

Other(c) == IF c = ClientPK THEN PeerPK ELSE ClientPK

Writer == ClientPK
Reader == PeerPK

\* Empty slot of a channel table.
Free == 0

\* No relay entry for an ID.
NoEntry == <<>>

\* The n-th byte written on transport k.
Byte(k, n) == <<k, n>>

\* The bytes from..to of the stream written on transport k.
Bytes(k, from, to) == [i \in 1 .. (to - from + 1) |-> Byte(k, from + i - 1)]

NoChannel == [st |-> "None", id |-> 0, q |-> <<>>, held |-> FALSE]

Frame(ft, id, p, k) == [ft |-> ft, id |-> id, p |-> p, tr |-> k]

\* Channel.write: the input is cut into Data frames of at most MaxPayload
\* bytes, in order.
RECURSIVE Chunk(_, _)
Chunk(id, bytes) ==
    IF bytes = <<>> THEN <<>>
    ELSE LET n == IF Len(bytes) < MaxPayload THEN Len(bytes) ELSE MaxPayload IN
         <<Frame(DataType, id, SubSeq(bytes, 1, n), 0)>>
             \o Chunk(id, SubSeq(bytes, n + 1, Len(bytes)))

\* allocate_id: the first ID from cursor n on, in steps of 2 and wrapping
\* modulo the ID space, that is not in use; IDSpace when all IDs of the
\* parity of n are in use.
RECURSIVE AllocateID(_, _, _)
AllocateID(used, n, k) ==
    IF k >= IDSpace \div 2 THEN IDSpace
    ELSE IF n \notin used THEN n
    ELSE AllocateID(used, (n + 2) % IDSpace, k + 1)

\* IDs in use in a client's channel table.
UsedIDs(c) == {i \in IDs : tbl[c][i] # Free}

\* IDs in use on the server's side of the link to client c.
RelayIDs(c) == {i \in IDs : relay[<<c, i>>] # NoEntry}

\* Mutant of RelayedID: the frame is forwarded under the ID it came with.
M_RelayedID(f, entry) == f.id

\* The ID a relayed frame carries on the peer link: the paired ID.
RelayedID(f, entry) == entry[2]

\* Mutant of Pair: only the initiator's entry is installed.
M_Pair(rl, a, b) == [rl EXCEPT ![a] = b]

\* The pair-of-channels relay entry: each of the two (link, ID) names the
\* other.
Pair(rl, a, b) == [rl EXCEPT ![a] = b, ![b] = a]

\* The channel's inbound queue after the payload was enqueued.
Enqueue(q, p) == q \o p

\* The bytes Channel.read hands out for a buffer of n bytes.
ReadCount(q, n) == IF Len(q) < n THEN Len(q) ELSE n

RelayInit ==
    /\ eps = [e \in Transports \X Clients |-> NoChannel]
    /\ tbl = [c \in Clients |-> [i \in IDs |-> Free]]
    /\ cliNext = [c \in Clients |-> 0]
    /\ srvNext = [c \in Clients |-> 1]
    /\ relay = [e \in Clients \X IDs |-> NoEntry]
    /\ up = [c \in Clients |-> <<>>]
    /\ down = [c \in Clients |-> <<>>]
    /\ acceptQ = [c \in Clients |-> <<>>]
    /\ written = [k \in Transports |-> 0]
    /\ readLog = [k \in Transports |-> <<>>]

\* Client.dial(peer_pk) by client c, opening transport k (the transports are
\* numbered in the order they are dialed): allocate an even ID, insert the Handshaking channel
\* and emit the Request; fails when the IDs are exhausted.
TDial(k, c) ==
    LET id == AllocateID(UsedIDs(c), cliNext[c], 0) IN
    /\ \A d \in Clients : eps[<<k, d>>].st = "None"
    /\ \A j \in Transports : j < k => \E d \in Clients : eps[<<j, d>>].st # "None"
    /\ Len(up[c]) < LinkCap
    /\ IF id = IDSpace
       THEN /\ eps' = [eps EXCEPT ![<<k, c>>].st = "Closed"]
            /\ UNCHANGED <<tbl, cliNext, up>>
       ELSE /\ eps' = [eps EXCEPT ![<<k, c>>] =
                          [st |-> "Handshaking", id |-> id, q |-> <<>>, held |-> FALSE]]
            /\ tbl' = [tbl EXCEPT ![c][id] = k]
            /\ cliNext' = [cliNext EXCEPT ![c] = (id + 2) % IDSpace]
            /\ up' = [up EXCEPT ![c] =
                         Append(@, Frame(RequestType, id, <<c, Other(c)>>, k))]
    /\ UNCHANGED <<srvNext, relay, down, acceptQ, written, readLog>>
    /\ UNCHANGED notRelay

\* The relay server takes the next frame of the link to client c.
SrvRelay(c) ==
    /\ up[c] # <<>>
    /\ LET f == Head(up[c])
           entry == relay[<<c, f.id>>]
           rest == [up EXCEPT ![c] = Tail(@)]
       IN
       IF f.ft = RequestType /\ entry = NoEntry /\ f.id % 2 = 0
          /\ Len(f.p) = 2 /\ f.p[1] = c /\ f.p[2] = Other(c)
          /\ AllocateID(RelayIDs(f.p[2]), srvNext[f.p[2]], 0) # IDSpace
       THEN \* pair the two channels and forward the Request under the new ID
            LET r == f.p[2]
                nid == AllocateID(RelayIDs(r), srvNext[r], 0)
            IN
            /\ Len(down[r]) < LinkCap
            /\ relay' = Pair(relay, <<c, f.id>>, <<r, nid>>)
            /\ srvNext' = [srvNext EXCEPT ![r] = (nid + 2) % IDSpace]
            /\ down' = [down EXCEPT ![r] = Append(@, Frame(RequestType, nid, f.p, f.tr))]
            /\ up' = rest
       ELSE IF f.ft = RequestType
       THEN \* no peer link, no free ID, or the ID is already paired
            /\ Len(down[c]) < LinkCap
            /\ down' = [down EXCEPT ![c] = Append(@, Frame(CloseType, f.id, <<1>>, 0))]
            /\ up' = rest
            /\ UNCHANGED <<relay, srvNext>>
       ELSE IF entry # NoEntry
       THEN \* rewrite the ID and forward on the peer link
            /\ Len(down[entry[1]]) < LinkCap
            /\ down' = [down EXCEPT ![entry[1]] =
                           Append(@, Frame(f.ft, RelayedID(f, entry), f.p, f.tr))]
            /\ relay' = IF f.ft = CloseType
                        THEN [relay EXCEPT ![<<c, f.id>>] = NoEntry, ![entry] = NoEntry]
                        ELSE relay
            /\ up' = rest
            /\ UNCHANGED srvNext
       ELSE IF f.ft = CloseType
       THEN /\ up' = rest
            /\ UNCHANGED <<down, relay, srvNext>>
       ELSE /\ Len(down[c]) < LinkCap
            /\ down' = [down EXCEPT ![c] = Append(@, Frame(CloseType, f.id, <<0>>, 0))]
            /\ up' = rest
            /\ UNCHANGED <<relay, srvNext>>
    /\ UNCHANGED <<eps, tbl, cliNext, acceptQ, written, readLog>>
    /\ UNCHANGED notRelay

\* The reply of a client's link: one Close frame on the ID.
ReplyClose(c, id, reason) ==
    /\ Len(up[c]) < LinkCap
    /\ up' = [up EXCEPT ![c] = Append(@, Frame(CloseType, id, <<reason>>, 0))]

\* The demultiplex loop of client c's link takes the next frame.
CliDemux(c) ==
    /\ down[c] # <<>>
    /\ LET f == Head(down[c])
           k == tbl[c][f.id]
           e == <<k, c>>
           st == IF k = Free THEN "None" ELSE eps[e].st
       IN
       /\ down' = [down EXCEPT ![c] = Tail(@)]
       /\ CASE k = Free /\ f.ft = RequestType /\ f.id % 2 = 1
                  /\ Len(f.p) = 2 /\ f.p[2] = c ->
                 \* create the channel Open, deliver it, answer Accept
                 /\ Len(up[c]) < LinkCap
                 /\ eps' = [eps EXCEPT ![<<f.tr, c>>] =
                               [st |-> "Open", id |-> f.id, q |-> <<>>, held |-> FALSE]]
                 /\ tbl' = [tbl EXCEPT ![c][f.id] = f.tr]
                 /\ acceptQ' = [acceptQ EXCEPT ![c] = Append(@, f.tr)]
                 /\ up' = [up EXCEPT ![c] = Append(@, Frame(AcceptType, f.id, <<>>, 0))]
            [] k = Free /\ f.ft = CloseType ->
                 UNCHANGED <<eps, tbl, acceptQ, up>>
            [] k = Free /\ f.ft # CloseType
                  /\ ~(f.ft = RequestType /\ f.id % 2 = 1
                       /\ Len(f.p) = 2 /\ f.p[2] = c) ->
                 /\ ReplyClose(c, f.id, 0)
                 /\ UNCHANGED <<eps, tbl, acceptQ>>
            [] k # Free /\ st = "Handshaking" /\ f.ft = AcceptType ->
                 /\ eps' = [eps EXCEPT ![e].st = "Open", ![e].held = TRUE]
                 /\ UNCHANGED <<tbl, acceptQ, up>>
            [] k # Free /\ st = "Handshaking" /\ f.ft = CloseType ->
                 /\ eps' = [eps EXCEPT ![e].st = "Closed"]
                 /\ tbl' = [tbl EXCEPT ![c][f.id] = Free]
                 /\ UNCHANGED <<acceptQ, up>>
            [] k # Free /\ st = "Handshaking" /\ f.ft = RequestType ->
                 /\ ReplyClose(c, f.id, 2)
                 /\ eps' = [eps EXCEPT ![e].st = "Closed"]
                 /\ tbl' = [tbl EXCEPT ![c][f.id] = Free]
                 /\ UNCHANGED acceptQ
            [] k # Free /\ st = "Handshaking" /\ f.ft = DataType ->
                 /\ ReplyClose(c, f.id, 0)
                 /\ UNCHANGED <<eps, tbl, acceptQ>>
            [] k # Free /\ st # "Handshaking" /\ f.ft = RequestType ->
                 /\ ReplyClose(c, f.id, 2)
                 /\ UNCHANGED <<eps, tbl, acceptQ>>
            [] k # Free /\ st # "Handshaking" /\ f.ft = AcceptType ->
                 /\ ReplyClose(c, f.id, 2)
                 /\ eps' = [eps EXCEPT ![e].st = "Closed"]
                 /\ tbl' = [tbl EXCEPT ![c][f.id] = Free]
                 /\ UNCHANGED acceptQ
            [] k # Free /\ st # "Handshaking" /\ f.ft = DataType ->
                 IF Len(eps[e].q) + Len(f.p) > QueueCap
                 THEN \* FlowExceeded: the channel is closed, the link goes on
                      /\ ReplyClose(c, f.id, 3)
                      /\ eps' = [eps EXCEPT ![e].st = "Closed"]
                      /\ tbl' = [tbl EXCEPT ![c][f.id] = Free]
                      /\ UNCHANGED acceptQ
                 ELSE /\ eps' = [eps EXCEPT ![e].q = Enqueue(@, f.p)]
                      /\ UNCHANGED <<tbl, acceptQ, up>>
            [] k # Free /\ st # "Handshaking" /\ f.ft = CloseType ->
                 /\ eps' = [eps EXCEPT ![e].st = "Closing"]
                 /\ UNCHANGED <<tbl, acceptQ, up>>
    /\ UNCHANGED <<cliNext, srvNext, relay, written, readLog>>
    /\ UNCHANGED notRelay

\* Client.accept(): the next inbound channel of the accept queue.
TAccept(c) ==
    /\ acceptQ[c] # <<>>
    /\ acceptQ' = [acceptQ EXCEPT ![c] = Tail(@)]
    /\ eps' = [eps EXCEPT ![<<Head(acceptQ[c]), c>>].held = TRUE]
    /\ UNCHANGED <<tbl, cliNext, srvNext, relay, up, down, written, readLog>>
    /\ UNCHANGED notRelay

\* Channel.write(bytes) of n bytes on transport k by the writer.
TWrite(k, n) ==
    LET e == <<k, Writer>>
        frames == Chunk(eps[e].id, Bytes(k, written[k] + 1, written[k] + n))
    IN
    /\ eps[e].held
    /\ eps[e].st \in {"Open", "Closing"}
    /\ written[k] + n <= MaxBytes
    /\ Len(up[Writer]) + Len(frames) <= LinkCap
    /\ up' = [up EXCEPT ![Writer] = @ \o frames]
    /\ written' = [written EXCEPT ![k] = @ + n]
    /\ UNCHANGED <<eps, tbl, cliNext, srvNext, relay, down, acceptQ, readLog>>
    /\ UNCHANGED notRelay

\* Channel.read(buf) with a buffer of n bytes on transport k by the reader.
TRead(k, n) ==
    LET e == <<k, Reader>>
        m == ReadCount(eps[e].q, n)
    IN
    /\ eps[e].held
    /\ eps[e].q # <<>>
    /\ readLog' = [readLog EXCEPT ![k] = @ \o SubSeq(eps[e].q, 1, m)]
    /\ eps' = [eps EXCEPT ![e].q = SubSeq(@, m + 1, Len(@))]
    /\ UNCHANGED <<tbl, cliNext, srvNext, relay, up, down, acceptQ, written>>
    /\ UNCHANGED notRelay

\* Channel.close() on transport k by client c, also the cancellation of a
\* dial: emits the Close frame and leaves the link table.
TClose(k, c) ==
    LET e == <<k, c>> IN
    /\ eps[e].st \in {"Handshaking", "Open", "Closing"}
    /\ eps[e].held \/ eps[e].st = "Handshaking"
    /\ Len(up[c]) < LinkCap
    /\ up' = [up EXCEPT ![c] = Append(@, Frame(CloseType, eps[e].id, <<0>>, 0))]
    /\ eps' = [eps EXCEPT ![e].st = "Closed"]
    /\ tbl' = [tbl EXCEPT ![c][eps[e].id] = Free]
    /\ UNCHANGED <<cliNext, srvNext, relay, down, acceptQ, written, readLog>>
    /\ UNCHANGED notRelay

RelayNext ==
    \/ \E k \in Transports, c \in Clients : TDial(k, c)
    \/ \E c \in Clients : SrvRelay(c)
    \/ \E c \in Clients : CliDemux(c)
    \/ \E c \in Clients : TAccept(c)
    \/ \E k \in Transports, n \in 1 .. MaxBytes : TWrite(k, n)
    \/ \E k \in Transports, n \in 1 .. MaxBytes : TRead(k, n)
    \/ \E k \in Transports, c \in Clients : TClose(k, c)

\* ------------------------------------------------------- life of one link
\* One Link built by NewLink: the goroutine started for Link.Serve, callers
\* of Link.Dial whose Handshake writes the Request on the connection, and one
\* caller of Link.Close.

Dialers == 1 .. MaxDialers

LifeInit ==
    /\ conn = "open"
    /\ rd = "none"
    /\ wg = 0
    /\ nread = 0
    /\ hs = [i \in Dialers |-> "idle"]
    /\ closer = [pc |-> "idle", rd |-> "none", left |-> {}]

\* The goroutines inside a Write on the connection of the link.
Writers ==
    (IF rd = "write" THEN {"Serve"} ELSE {}) \cup {i \in Dialers : hs[i] = "write"}

\* Channels handed out by Link.Dial that are not closed.
OpenDialed == {i \in Dialers : hs[i] \in {"write", "wait"}}

\* go func() { l.Serve(ctx, c.accept) ... }(): the goroutine is created; it
\* has not run yet.
GoServe ==
    /\ rd = "none"
    /\ rd' = "spawned"
    /\ UNCHANGED <<conn, wg, nread, hs, closer>>
    /\ UNCHANGED notLife

\* Link.Serve starts: l.wg.Add(1), then the loop.
ServeEnter ==
    /\ rd = "spawned"
    /\ wg' = wg + 1
    /\ rd' = "read"
    /\ UNCHANGED <<conn, nread, hs, closer>>
    /\ UNCHANGED notLife

\* readFrame returns a frame; with reply the frame is one that Link.Serve
\* answers, and it enters l.Conn.Write(MakeFrame(CloseType, id, []byte{0})).
ServeFrame(reply) ==
    /\ rd = "read"
    /\ conn = "open"
    /\ nread < MaxFrames
    /\ nread' = nread + 1
    /\ rd' = IF reply THEN "write" ELSE "read"
    /\ UNCHANGED <<conn, wg, hs, closer>>
    /\ UNCHANGED notLife

\* readFrame returns a Request that checkRequest accepts: Link.Serve sets the
\* new channel in the table and enters the send on the accept queue, where
\* it waits for a caller of Client.Accept.
ServeAccept ==
    /\ rd = "read"
    /\ conn = "open"
    /\ nread < MaxFrames
    /\ nread' = nread + 1
    /\ rd' = "send"
    /\ UNCHANGED <<conn, wg, hs, closer>>
    /\ UNCHANGED notLife

\* A caller of Client.Accept takes the channel. Link.Serve goes on to
\* ch.AwaitRead(f) with the previous occupant of the slot: a nil channel
\* (the goroutine panics) or a done one (the loop continues).
AcceptTaken ==
    /\ rd = "send"
    /\ rd' \in {"read", "panic"}
    /\ UNCHANGED <<conn, wg, nread, hs, closer>>
    /\ UNCHANGED notLife

\* l.Conn.Write returns; its result is dropped and the loop continues.
ServeWritten ==
    /\ rd = "write"
    /\ rd' = "read"
    /\ UNCHANGED <<conn, wg, nread, hs, closer>>
    /\ UNCHANGED notLife

\* readFrame fails on the closed connection: Link.Serve returns the error
\* and the deferred l.wg.Done() runs.
ServeReturn ==
    /\ rd = "read"
    /\ conn = "closed"
    /\ rd' = "exited"
    /\ wg' = wg - 1
    /\ UNCHANGED <<conn, nread, hs, closer>>
    /\ UNCHANGED notLife

\* Link.Dial by caller i: addChan under l.mx, then ch.Handshake enters the
\* write of the Request frame on the connection handed to NewChannel.
DialWrite(i) ==
    /\ hs[i] = "idle"
    /\ hs' = [hs EXCEPT ![i] = "write"]
    /\ UNCHANGED <<conn, rd, wg, nread, closer>>
    /\ UNCHANGED notLife

\* The write of the Request returns; Handshake waits for the answer.
DialWritten(i) ==
    /\ hs[i] = "write"
    /\ hs' = [hs EXCEPT ![i] = "wait"]
    /\ UNCHANGED <<conn, rd, wg, nread, closer>>
    /\ UNCHANGED notLife

\* Handshake gives up (context done or connection closed); the channel is
\* closed and Link.Dial returns.
DialDone(i) ==
    /\ hs[i] = "wait"
    /\ hs' = [hs EXCEPT ![i] = "done"]
    /\ UNCHANGED <<conn, rd, wg, nread, closer>>
    /\ UNCHANGED notLife

\* Link.Close up to l.mx.Unlock(): the channels of l.chans are closed, then
\* the connection. Channels handed out by Link.Dial are not in l.chans.
LinkClose ==
    /\ closer.pc = "idle"
    /\ conn' = "closed"
    /\ closer' = [closer EXCEPT !.pc = "wait", !.left = OpenDialed]
    /\ UNCHANGED <<rd, wg, nread, hs>>
    /\ UNCHANGED notLife

\* l.wg.Wait() returns once the counter is zero, and Link.Close returns.
LinkCloseReturn ==
    /\ closer.pc = "wait"
    /\ wg = 0
    /\ closer' = [closer EXCEPT !.pc = "returned", !.rd = rd]
    /\ UNCHANGED <<conn, rd, wg, nread, hs>>
    /\ UNCHANGED notLife

LifeNext ==
    \/ GoServe
    \/ ServeEnter
    \/ \E reply \in BOOLEAN : ServeFrame(reply)
    \/ ServeAccept
    \/ AcceptTaken
    \/ ServeWritten
    \/ ServeReturn
    \/ \E i \in Dialers : DialWrite(i)
    \/ \E i \in Dialers : DialWritten(i)
    \/ \E i \in Dialers : DialDone(i)
    \/ LinkClose
    \/ LinkCloseReturn

\* ------------------------------------------------------------- the client
\* One Client built by NewClient, the discovery service it asks, the servers
\* it connects to and the goroutines of the Links it builds.

\* Keys of the messaging servers, in the order AvailableServers lists them.
ServerList == <<"s1", "s2">>
Servers == {ServerList[i] : i \in 1 .. Len(ServerList)}

\* The lists AvailableServers returns: the servers once each, or a list in
\* which the discovery service names a server twice.
ServerLists == {ServerList, <<"s1", "s1">>}

\* The DelegatedServers lists found in the entry of the dialed client.
DelegatedLists == {<<>>, <<"s1">>, <<"s2">>, <<"s2", "s1">>}

\* No entry in Client.links; as a *Link, the nil pointer.
NoLink == 0

Closers == 1 .. MaxClosers

\* The keys of Client.links.
Linked(lk) == {srv \in Servers : lk[srv] # NoLink}

\* Client.newLink(ctx, srvPK, addr) when the connection succeeds: NewLink and
\* the go statement for Link.Serve.
newLink(objs, srvPK) ==
    Append(objs, [srv |-> srvPK, conn |-> "open", rd |-> "spawned"])

\* The loop of Client.InitiateLinks over the entries from index i on; connOK
\* tells for each server whether Client.newLink succeeds.
RECURSIVE initLoop(_, _, _, _, _, _)
initLoop(entries, i, lk, objs, n, connOK) ==
    IF i > Len(entries) \/ Cardinality(Linked(lk)) > n
    THEN [links |-> lk, lobj |-> objs]
    ELSE IF ~connOK[entries[i]]
    THEN initLoop(entries, i + 1, lk, objs, n, connOK)
    ELSE initLoop(entries, i + 1,
                  [lk EXCEPT ![entries[i]] = Len(objs) + 1],
                  newLink(objs, entries[i]), n, connOK)

\* c.mx.RLock() succeeds only while no goroutine holds the write lock.
TryRLock(holder) == holder = "free"

\* Client.updateDiscEntry: the entry, new or updated, lists the keys of
\* Client.links as DelegatedServers.
updateDiscEntry(lk) == [present |-> TRUE, servers |-> Linked(lk)]

\* The second loop of Client.findLink from index i on.
RECURSIVE findDial(_, _, _, _, _, _)
findDial(srvPKs, i, lk, objs, dcOK, connOK) ==
    IF i > Len(srvPKs)
    THEN [link |-> NoLink, err |-> "ErrNoSrv", links |-> lk, lobj |-> objs]
    ELSE IF ~dcOK
    THEN [link |-> NoLink, err |-> "get server failure", links |-> lk, lobj |-> objs]
    ELSE IF ~connOK[srvPKs[i]]
    THEN findDial(srvPKs, i + 1, lk, objs, dcOK, connOK)
    ELSE [link |-> Len(objs) + 1, err |-> "nil",
          links |-> [lk EXCEPT ![srvPKs[i]] = Len(objs) + 1],
          lobj |-> newLink(objs, srvPKs[i])]

\* Client.findLink(ctx, srvPKs): the first loop returns c.links[srvPK] for the
\* first srvPK that is not a key of the map, i.e. nil.
findLink(srvPKs, lk, objs, dcOK, connOK) ==
    IF \E i \in 1 .. Len(srvPKs) : lk[srvPKs[i]] = NoLink
    THEN [link |-> NoLink, err |-> "nil", links |-> lk, lobj |-> objs]
    ELSE findDial(srvPKs, 1, lk, objs, dcOK, connOK)

\* Mutant of clientDial: with no delegated servers in the entry the dial falls
\* back to the servers the discovery service lists.
M_clientDial(srvPKs, entryOK, dcOK, connOK, lk, objs) ==
    IF ~entryOK
    THEN [link |-> NoLink, err |-> "get entry failure", links |-> lk, lobj |-> objs]
    ELSE findLink(IF Len(srvPKs) = 0 THEN ServerList ELSE srvPKs,
                  lk, objs, dcOK, connOK)

\* Client.Dial up to the call of link.Dial: the link to dial on, or the error
\* returned.
clientDial(srvPKs, entryOK, dcOK, connOK, lk, objs) ==
    IF ~entryOK
    THEN [link |-> NoLink, err |-> "get entry failure", links |-> lk, lobj |-> objs]
    ELSE IF Len(srvPKs) = 0
    THEN [link |-> NoLink, err |-> "ErrNoSrv", links |-> lk, lobj |-> objs]
    ELSE findLink(srvPKs, lk, objs, dcOK, connOK)

\* Mutant of acceptResult: the closed queue is not told from a channel.
M_acceptResult(kind) ==
    CASE kind = "recv" -> [res |-> "chan", took |-> 1]
      [] kind = "closed" -> [res |-> "chan", took |-> 0]
      [] OTHER -> [res |-> "ctx.Err", took |-> 0]

\* Client.Accept: what the select returns for the case that fired, and the
\* number of channels it took from c.accept.
acceptResult(kind) ==
    CASE kind = "recv" -> [res |-> "chan", took |-> 1]
      [] kind = "closed" -> [res |-> "ErrClientClosed", took |-> 0]
      [] OTHER -> [res |-> "ctx.Err", took |-> 0]

\* Link.Close on every Link of the map: the connection is closed.
closeLinks(lk, objs) ==
    [i \in DOMAIN objs |->
        IF \E srv \in Servers : lk[srv] = i
        THEN [objs[i] EXCEPT !.conn = "closed"]
        ELSE objs[i]]

ClientInit ==
    /\ links = [srv \in Servers |-> NoLink]
    /\ lobj = <<>>
    /\ cmx = "free"
    /\ il = [pc |-> "idle", n |-> 0, err |-> "none", made |-> 0,
             fromEmpty |-> TRUE, connOK |-> [srv \in Servers |-> FALSE],
             linked |-> {}, calls |-> 0]
    /\ dl = [pc |-> "idle", srvPKs |-> <<>>, err |-> "none", link |-> NoLink,
             opened |-> 0, before |-> [srv \in Servers |-> NoLink],
             after |-> [srv \in Servers |-> NoLink], calls |-> 0]
    /\ cl = [j \in Closers |-> [pc |-> "idle", err |-> "none", mapLen |-> 0]]
    /\ acc = [waiting |-> 0, closes |-> 0, got |-> <<>>,
              res |-> "none", took |-> 0, closedAt |-> 0]
    /\ disc = [present |-> FALSE, servers |-> {}]
    /\ crashed = FALSE

\* Client.InitiateLinks(ctx, n). fetchOK: AvailableServers succeeds and
\* returns entries; connOK:
\* the servers Client.newLink can connect to. The call holds c.mx from its
\* first statement to its return, updateDiscEntry included.
InitiateLinks(n, fetchOK, connOK, entries) ==
    /\ ~crashed
    /\ cmx = "free"
    /\ il.calls < MaxInitCalls
    /\ LET r == initLoop(entries, 1, links, lobj, n, connOK)
           call == [il EXCEPT !.n = n, !.calls = @ + 1, !.connOK = connOK,
                              !.fromEmpty = (Linked(links) = {})]
       IN
       IF ~fetchOK
       THEN /\ il' = [call EXCEPT !.pc = "done", !.made = 0, !.linked = Linked(links),
                                  !.err = "messaging servers are not available"]
            /\ UNCHANGED <<links, lobj, cmx, disc>>
       ELSE /\ links' = r.links
            /\ lobj' = r.lobj
            /\ IF Linked(r.links) = {}
               THEN /\ il' = [call EXCEPT !.pc = "done", !.made = 0, !.linked = {},
                                          !.err = "all servers failed"]
                    /\ UNCHANGED <<cmx, disc>>
               ELSE IF TryRLock("InitiateLinks")
               THEN /\ il' = [call EXCEPT !.pc = "done", !.err = "nil",
                                          !.made = Len(r.lobj) - Len(lobj),
                                          !.linked = Linked(r.links)]
                    /\ disc' = updateDiscEntry(r.links)
                    /\ UNCHANGED cmx
               ELSE \* updateDiscEntry waits in c.mx.RLock() for the write lock
                    \* its own caller holds
                    /\ il' = [call EXCEPT !.pc = "rlock", !.err = "none",
                                          !.made = Len(r.lobj) - Len(lobj),
                                          !.linked = Linked(r.links)]
                    /\ cmx' = "InitiateLinks"
                    /\ UNCHANGED disc
    /\ UNCHANGED <<dl, cl, acc, crashed>>
    /\ UNCHANGED notClient

\* Client.Dial(ctx, remoteClient). srvPKs: the DelegatedServers of the entry
\* of remoteClient; entryOK, dcOK: the lookups of the discovery service
\* succeed; connOK: the servers Client.newLink can connect to.
ClientDial(srvPKs, entryOK, dcOK, connOK) ==
    /\ ~crashed
    /\ cmx = "free"
    /\ dl.calls < MaxClientDials
    /\ LET r == clientDial(srvPKs, entryOK, dcOK, connOK, links, lobj)
           call == [dl EXCEPT !.srvPKs = srvPKs, !.calls = @ + 1,
                              !.before = links, !.after = r.links,
                              !.link = r.link,
                              !.opened = Len(r.lobj) - Len(lobj)]
       IN
       /\ links' = r.links
       /\ lobj' = r.lobj
       /\ IF r.err # "nil"
          THEN /\ dl' = [call EXCEPT !.pc = "done", !.err = r.err]
               /\ UNCHANGED <<cmx, crashed>>
          ELSE IF r.link = NoLink
          THEN \* link.Dial on a nil *Link
               /\ dl' = [call EXCEPT !.pc = "panic", !.err = "none"]
               /\ crashed' = TRUE
               /\ UNCHANGED cmx
          ELSE \* link.Dial: addChan and Handshake, c.mx held until it returns
               /\ dl' = [call EXCEPT !.pc = "handshake", !.err = "none"]
               /\ cmx' = "Dial"
               /\ UNCHANGED crashed
    /\ UNCHANGED <<il, cl, acc, disc>>
    /\ UNCHANGED notClient

\* Caller j enters Client.Close and asks for c.mx.
CloseCall(j) ==
    /\ ~crashed
    /\ cl[j].pc = "idle"
    /\ cl' = [cl EXCEPT ![j].pc = "lock"]
    /\ UNCHANGED <<links, lobj, cmx, il, dl, acc, disc, crashed>>
    /\ UNCHANGED notClient

\* Caller j gets c.mx; Link.Close on each Link of the map closes its
\* connection and then waits for its reader.
CloseRun(j) ==
    /\ ~crashed
    /\ cl[j].pc = "lock"
    /\ cmx = "free"
    /\ cmx' = "Close"
    /\ lobj' = closeLinks(links, lobj)
    /\ cl' = [cl EXCEPT ![j].pc = "wait"]
    /\ UNCHANGED <<links, il, dl, acc, disc, crashed>>
    /\ UNCHANGED notClient

\* The readers of the closed Links have returned: the map is replaced by an
\* empty one, c.once closes c.accept if no call has, and Client.Close
\* returns nil, releasing c.mx.
CloseReturn(j) ==
    /\ ~crashed
    /\ cl[j].pc = "wait"
    /\ \A srv \in Linked(links) : lobj[links[srv]].rd \notin {"read", "send"}
    /\ links' = [srv \in Servers |-> NoLink]
    /\ acc' = [acc EXCEPT !.closes = IF @ = 0 THEN 1 ELSE @]
    /\ crashed' = (acc.closes = 0 /\ \E i \in DOMAIN lobj : lobj[i].rd = "send")
    /\ cmx' = "free"
    /\ cl' = [cl EXCEPT ![j] = [pc |-> "done", err |-> "nil", mapLen |-> 0]]
    /\ UNCHANGED <<lobj, il, dl, disc>>
    /\ UNCHANGED notClient

\* The goroutine of Link l starts Link.Serve.
ClientServeEnter(l) ==
    /\ ~crashed
    /\ l \in DOMAIN lobj
    /\ lobj[l].rd = "spawned"
    /\ lobj' = [lobj EXCEPT ![l].rd = "read"]
    /\ UNCHANGED <<links, cmx, il, dl, cl, acc, disc, crashed>>
    /\ UNCHANGED notClient

\* Link.Serve of Link l reads a Request that checkRequest accepts: it sets
\* the channel in the table and sends it on c.accept. The send waits for a
\* receiver; on a closed c.accept it panics.
ClientServeRequest(l) ==
    /\ ~crashed
    /\ l \in DOMAIN lobj
    /\ lobj[l].rd = "read"
    /\ lobj[l].conn = "open"
    /\ IF acc.closes > 0
       THEN /\ crashed' = TRUE
            /\ UNCHANGED lobj
       ELSE /\ lobj' = [lobj EXCEPT ![l].rd = "send"]
            /\ UNCHANGED crashed
    /\ UNCHANGED <<links, cmx, il, dl, cl, acc, disc>>
    /\ UNCHANGED notClient

\* readFrame of Link l fails (the connection is closed by either side):
\* Link.Serve returns the error and the goroutine calls c.delLink, which
\* needs c.mx.
ClientServeErr(l) ==
    /\ ~crashed
    /\ l \in DOMAIN lobj
    /\ lobj[l].rd = "read"
    /\ IF cmx = "free"
       THEN /\ links' = [links EXCEPT ![lobj[l].srv] = NoLink]
            /\ lobj' = [lobj EXCEPT ![l].rd = "exited", ![l].conn = "closed"]
       ELSE /\ lobj' = [lobj EXCEPT ![l].rd = "dellink", ![l].conn = "closed"]
            /\ UNCHANGED links
    /\ UNCHANGED <<cmx, il, dl, cl, acc, disc, crashed>>
    /\ UNCHANGED notClient

\* A caller enters Client.Accept and waits in the select.
ClientAcceptCall ==
    /\ ~crashed
    /\ acc.waiting < MaxAcceptors
    /\ acc' = [acc EXCEPT !.waiting = @ + 1]
    /\ UNCHANGED <<links, lobj, cmx, il, dl, cl, disc, crashed>>
    /\ UNCHANGED notClient

\* case <-ctx.Done(): the caller returns ctx.Err().
ClientAcceptCancel ==
    /\ ~crashed
    /\ acc.waiting > 0
    /\ LET r == acceptResult("ctx") IN
       acc' = [acc EXCEPT !.waiting = @ - 1, !.res = r.res, !.took = r.took,
                          !.closedAt = acc.closes]
    /\ UNCHANGED <<links, lobj, cmx, il, dl, cl, disc, crashed>>
    /\ UNCHANGED notClient

\* case ch, ok := <-c.accept with ok: the send of Link l meets the caller,
\* which returns the channel. Link.Serve goes on to ch.AwaitRead(f) with the
\* nil ch that getChan returned for the empty slot.
ClientAcceptRecv(l) ==
    /\ ~crashed
    /\ l \in DOMAIN lobj
    /\ lobj[l].rd = "send"
    /\ acc.waiting > 0
    /\ acc.closes = 0
    /\ LET r == acceptResult("recv") IN
       acc' = [acc EXCEPT !.waiting = @ - 1, !.res = r.res, !.took = r.took,
                          !.closedAt = acc.closes,
                          !.got = IF r.took = 1 THEN Append(@, l) ELSE @]
    /\ lobj' = [lobj EXCEPT ![l].rd = "panic"]
    /\ crashed' = TRUE
    /\ UNCHANGED <<links, cmx, il, dl, cl, disc>>
    /\ UNCHANGED notClient

\* case ch, ok := <-c.accept with !ok: c.accept is closed.
ClientAcceptClosed ==
    /\ ~crashed
    /\ acc.waiting > 0
    /\ acc.closes > 0
    /\ LET r == acceptResult("closed") IN
       acc' = [acc EXCEPT !.waiting = @ - 1, !.res = r.res, !.took = r.took,
                          !.closedAt = acc.closes]
    /\ UNCHANGED <<links, lobj, cmx, il, dl, cl, disc, crashed>>
    /\ UNCHANGED notClient

ClientNext ==
    \/ \E n \in 0 .. MaxN, fetchOK \in BOOLEAN, connOK \in [Servers -> BOOLEAN] :
          InitiateLinks(n, fetchOK, connOK, ServerList)
    \/ \E srvPKs \in DelegatedLists, entryOK \in BOOLEAN, dcOK \in BOOLEAN,
          connOK \in [Servers -> BOOLEAN] :
          ClientDial(srvPKs, entryOK, dcOK, connOK)
    \/ \E j \in Closers : CloseCall(j)
    \/ \E j \in Closers : CloseRun(j)
    \/ \E j \in Closers : CloseReturn(j)
    \/ \E l \in 1 .. Len(ServerList) : ClientServeEnter(l)
    \/ \E l \in 1 .. Len(ServerList) : ClientServeRequest(l)
    \/ \E l \in 1 .. Len(ServerList) : ClientServeErr(l)
    \/ ClientAcceptCall
    \/ ClientAcceptCancel
    \/ \E l \in 1 .. Len(ServerList) : ClientAcceptRecv(l)
    \/ ClientAcceptClosed

\* The client when the discovery service may also name a server twice.
ClientListsNext ==
    \/ ClientNext
    \/ \E n \in 0 .. MaxN, fetchOK \in BOOLEAN, connOK \in [Servers -> BOOLEAN],
          entries \in ServerLists :
          InitiateLinks(n, fetchOK, connOK, entries)

\* -------------------------------------------------- the server's link map
\* Server.serve(): each accepted connection is noise-handshaked as responder,
\* the peer's key is taken from the handshake, and the link is installed in
\* the per-peer map.

\* Keys of the clients that connect to the server.
ClientKeys == {ClientPK, PeerPK, "pkC"}

ServerInit ==
    /\ conns = [pk \in ClientKeys |-> NoLink]
    /\ slinks = <<>>
    /\ server = [closed |-> FALSE, calls |-> 0, err |-> "none"]

\* A link after it was closed: its channels are closed with it.
closedLink(lk) == [lk EXCEPT !.live = FALSE, !.closed = @ + lk.open, !.open = 0]

\* Mutant of closeAll: the links are left as they are.
M_closeAll(ls) == ls

\* Server.close(): every link of the server is closed.
closeAll(ls) == [l \in DOMAIN ls |-> closedLink(ls[l])]

\* Mutant of Evict: the prior link of the key is left as it is.
M_Evict(ls, old) == ls

\* The prior link old of a key (NoLink: none) is evicted: the link is closed
\* and its channels are closed.
Evict(ls, old) ==
    IF old = NoLink THEN ls
    ELSE [ls EXCEPT ![old] = [@ EXCEPT !.live = FALSE, !.closed = @ + ls[old].open,
                                        !.open = 0]]

\* A connection from the client with key pk completes its handshake: the new
\* link is installed under pk, evicting any prior link of pk.
SrvAccept(pk) ==
    /\ ~server.closed
    /\ Len(slinks) < MaxConns
    /\ slinks' = Append(Evict(slinks, conns[pk]),
                        [remoteClient |-> pk, live |-> TRUE, open |-> 0, closed |-> 0])
    /\ conns' = [conns EXCEPT ![pk] = Len(slinks) + 1]
    /\ UNCHANGED server
    /\ UNCHANGED notServer

\* A Request is relayed on link l: a channel is opened on it.
SrvOpen(l) ==
    /\ l \in DOMAIN slinks
    /\ slinks[l].live
    /\ slinks[l].open < MaxChans
    /\ slinks' = [slinks EXCEPT ![l].open = @ + 1]
    /\ UNCHANGED <<conns, server>>
    /\ UNCHANGED notServer

\* The connection of link l errors or is closed by the client: the link is
\* destroyed, its channels close and its entry leaves the map.
SrvDrop(l) ==
    /\ l \in DOMAIN slinks
    /\ slinks[l].live
    /\ slinks' = [slinks EXCEPT ![l] = [@ EXCEPT !.live = FALSE,
                                                 !.closed = @ + slinks[l].open,
                                                 !.open = 0]]
    /\ conns' = [pk \in ClientKeys |-> IF conns[pk] = l THEN NoLink ELSE conns[pk]]
    /\ UNCHANGED server
    /\ UNCHANGED notServer

\* Server.close(): the first call stops serve(), closes every link and
\* empties the map; a later call finds the server closed. Each call returns
\* without error.
SrvClose ==
    /\ server.calls < MaxSrvCloses
    /\ server' = [closed |-> TRUE, calls |-> server.calls + 1, err |-> "nil"]
    /\ IF server.closed
       THEN UNCHANGED <<conns, slinks>>
       ELSE /\ slinks' = closeAll(slinks)
            /\ conns' = [pk \in ClientKeys |-> NoLink]
    /\ UNCHANGED notServer

ServerNext ==
    \/ \E pk \in ClientKeys : SrvAccept(pk)
    \/ \E l \in 1 .. MaxConns : SrvOpen(l)
    \/ \E l \in 1 .. MaxConns : SrvDrop(l)
    \/ SrvClose

\* ------------------------------------------------------ one channel's calls
\* One channel of a link, dialed by its owner: the inbound Accept and Close of
\* the peer, and the owner's write and close calls.

\* The channel's ID on its link.
ChID == 0

\* Channel.write(bytes) of n bytes: ChannelClosed when the channel is Closed
\* or was closed locally, else the Data frames of the bytes.
chanWrite(ch, n) ==
    IF ch.st = "Closed" \/ ch.closedLocal
    THEN [err |-> "ChannelClosed", frames |-> <<>>]
    ELSE [err |-> "nil", frames |-> Chunk(ChID, Bytes(0, 1, n))]

\* Mutant of closeFrames: every call emits a Close frame.
M_closeFrames(ch) == <<Frame(CloseType, ChID, <<0>>, 0)>>

\* The frames Channel.close() emits: one Close, if the channel has not emitted
\* it already and is not Closed.
closeFrames(ch) ==
    IF ch.closedLocal \/ ch.st = "Closed" THEN <<>>
    ELSE <<Frame(CloseType, ChID, <<0>>, 0)>>

\* The channel after Channel.close(): Closing, or Closed when the peer's Close
\* was received before; it has left the link table.
chanClose(ch) ==
    [st |-> IF ch.st \in {"Closing", "Closed"} THEN "Closed" ELSE "Closing",
     closedLocal |-> TRUE, inTable |-> FALSE]

ChanInit ==
    /\ chn = [st |-> "Handshaking", closedLocal |-> FALSE, inTable |-> TRUE]
    /\ chOut = <<>>
    /\ chRes = [op |-> "none", err |-> "none", n |-> 0, afterClose |-> FALSE]
    /\ chCalls = [writes |-> 0, closes |-> 0]

\* The peer's Accept arrives: the dialer's channel is Open.
ChAccepted ==
    /\ chn.st = "Handshaking"
    /\ chn' = [chn EXCEPT !.st = "Open"]
    /\ UNCHANGED <<chOut, chRes, chCalls>>
    /\ UNCHANGED notChan

\* The peer's Close arrives: a dial is rejected and its slot cleared, an Open
\* channel is Closing, and a channel that was closed locally is Closed.
ChClosedByPeer ==
    /\ chn.st \in {"Handshaking", "Open"} \/ (chn.st = "Closing" /\ chn.closedLocal)
    /\ chn' = IF chn.st = "Open" THEN [chn EXCEPT !.st = "Closing"]
              ELSE [chn EXCEPT !.st = "Closed", !.inTable = FALSE]
    /\ UNCHANGED <<chOut, chRes, chCalls>>
    /\ UNCHANGED notChan

\* The owner calls Channel.write with n bytes.
ChWrite(n) ==
    /\ chn.st # "Handshaking"
    /\ chCalls.writes < MaxChWrites
    /\ LET r == chanWrite(chn, n) IN
       /\ chOut' = chOut \o r.frames
       /\ chRes' = [op |-> "Write", err |-> r.err, n |-> Len(r.frames),
                    afterClose |-> chn.closedLocal]
    /\ chCalls' = [chCalls EXCEPT !.writes = @ + 1]
    /\ UNCHANGED chn
    /\ UNCHANGED notChan

\* The owner calls Channel.close.
ChClose ==
    /\ chCalls.closes < MaxChCloses
    /\ chOut' = chOut \o closeFrames(chn)
    /\ chn' = chanClose(chn)
    /\ chRes' = [op |-> "Close", err |-> "nil", n |-> Len(closeFrames(chn)),
                 afterClose |-> chn.closedLocal]
    /\ chCalls' = [chCalls EXCEPT !.closes = @ + 1]
    /\ UNCHANGED notChan

ChanNext ==
    \/ ChAccepted
    \/ ChClosedByPeer
    \/ \E n \in 1 .. MaxBytes : ChWrite(n)
    \/ ChClose

\* --------------------------------------------------------- route manager
\* The routing table of a node and the route manager's calls on it.

RouteIDs == 1 .. MaxRules
\* A route ID outside the table.
MissingID == MaxRules + 1
Times == 0 .. MaxTime
Ports == {2, 3}
RemotePKs == {ClientPK, PeerPK}

NoRule ==
    [type |-> "None", expiry |-> 0, routeID |-> 0, remotePK |-> ZeroPK,
     remotePort |-> 0, localPort |-> 0, tr |-> 0]

\* routing.AppRule(expireAt, respRoute, remotePK, remotePort, localPort)
AppRule(expireAt, respRoute, remotePK, remotePort, localPort) ==
    [type |-> "App", expiry |-> expireAt, routeID |-> respRoute,
     remotePK |-> remotePK, remotePort |-> remotePort, localPort |-> localPort,
     tr |-> 0]

\* routing.ForwardRule(expireAt, nextRoute, nextTrID)
ForwardRule(expireAt, nextRoute, nextTrID) ==
    [type |-> "Forward", expiry |-> expireAt, routeID |-> nextRoute,
     remotePK |-> ZeroPK, remotePort |-> 0, localPort |-> 0, tr |-> nextTrID]

\* The rules put into the table: the app rule of the tests and the app rules
\* that differ from it in the local port, in the remote port or in the remote
\* key, and forward rules that differ in expiry.
Rules ==
    {AppRule(MaxTime, 3, PeerPK, 3, 2), AppRule(MaxTime, 3, PeerPK, 3, 3),
     AppRule(MaxTime, 3, PeerPK, 2, 2), AppRule(MaxTime, 3, ClientPK, 3, 2)}
        \cup {ForwardRule(e, 3, 1) : e \in Times}

\* routing.AddrLoop{Local: Addr{Port}, Remote: Addr{PubKey, Port}}
AddrLoop(localPort, remotePK, remotePort) ==
    [localPort |-> localPort, remotePK |-> remotePK, remotePort |-> remotePort]

Loops == {AddrLoop(lp, pk, rp) : lp \in Ports, pk \in RemotePKs, rp \in Ports}

NoLoop == AddrLoop(0, ZeroPK, 0)

\* Mutant of isExpired: no rule is taken as expired.
M_isExpired(rule, t) == FALSE

\* The rule's expiry time is before the time t.
isExpired(rule, t) == rule.expiry < t

\* routeManager.GetRule(routeID) at time t.
GetRule(table, routeID, t) ==
    IF routeID \notin DOMAIN table \/ table[routeID] = NoRule
    THEN [err |-> "unknown RouteID", rule |-> NoRule]
    ELSE IF isExpired(table[routeID], t)
    THEN [err |-> "expired routing rule", rule |-> NoRule]
    ELSE [err |-> "nil", rule |-> table[routeID]]

\* Mutant of matchesLoop: the local port is not compared.
M_matchesLoop(rule, loop) ==
    /\ rule.type = "App"
    /\ rule.remotePK = loop.remotePK
    /\ rule.remotePort = loop.remotePort

\* The rule is the app rule of the loop.
matchesLoop(rule, loop) ==
    /\ rule.type = "App"
    /\ rule.remotePK = loop.remotePK
    /\ rule.remotePort = loop.remotePort
    /\ rule.localPort = loop.localPort

\* The route IDs from id on whose rule is the app rule of the loop.
RECURSIVE loopRuleIDs(_, _, _)
loopRuleIDs(table, loop, id) ==
    IF id > MaxRules THEN {}
    ELSE (IF matchesLoop(table[id], loop) THEN {id} ELSE {})
             \cup loopRuleIDs(table, loop, id + 1)

\* routeManager.RemoveLoopRule(loop): the rules of the loop are collected and
\* deleted from the table.
RemoveLoopRule(table, loop) ==
    LET ids == loopRuleIDs(table, loop, 1) IN
    [err |-> "nil", removed |-> Cardinality(ids),
     table |-> [id \in RouteIDs |-> IF id \in ids THEN NoRule ELSE table[id]]]

RouteInit ==
    /\ rt = [id \in RouteIDs |-> NoRule]
    /\ now = 0
    /\ rmRes = [op |-> "none", id |-> 0, loop |-> NoLoop, err |-> "none",
                rule |-> NoRule, removed |-> 0, seq |-> 0]

\* rt.SetRule(id, rule), rt.AddRule(rule): a rule is put into the table.
RtSetRule(id, rule) ==
    /\ rt[id] # rule
    /\ rt' = [rt EXCEPT ![id] = rule]
    /\ UNCHANGED <<now, rmRes>>
    /\ UNCHANGED notRoute

\* Time passes.
Tick ==
    /\ now < MaxTime
    /\ now' = now + 1
    /\ UNCHANGED <<rt, rmRes>>
    /\ UNCHANGED notRoute

\* A call of routeManager.GetRule(id), as Router.serveTransport makes it for
\* the route ID of a packet.
RmGetRule(id) ==
    /\ LET r == GetRule(rt, id, now) IN
       rmRes' = [op |-> "GetRule", id |-> id, loop |-> NoLoop, err |-> r.err,
                 rule |-> r.rule, removed |-> 0, seq |-> 1 - rmRes.seq]
    /\ UNCHANGED <<rt, now>>
    /\ UNCHANGED notRoute

\* A call of routeManager.RemoveLoopRule(loop), as Router.destroyLoop makes
\* it.
RmRemoveLoopRule(loop) ==
    /\ LET r == RemoveLoopRule(rt, loop) IN
       /\ rt' = r.table
       /\ rmRes' = [op |-> "RemoveLoopRule", id |-> 0, loop |-> loop,
                    err |-> r.err, rule |-> NoRule, removed |-> r.removed,
                    seq |-> 1 - rmRes.seq]
    /\ UNCHANGED now
    /\ UNCHANGED notRoute

RouteNext ==
    \/ \E id \in RouteIDs, rule \in Rules : RtSetRule(id, rule)
    \/ Tick
    \/ \E id \in RouteIDs \cup {MissingID} : RmGetRule(id)
    \/ \E loop \in Loops : RmRemoveLoopRule(loop)

\* ------------------------------------------------- routeManager.Serve
\* routeManager.Serve on one connection: the peer sends a ConfirmLoop or a
\* LoopClosed request and waits for the response; the route manager hands the
\* request to the callback of the Router and then responds. Requests that add
\* or delete rules are left out; the table is filled by RtSetRule.

\* routing.LoopData{Loop, RouteID} with the type of the setup packet.
LoopData(kind, loop, routeID) == [kind |-> kind, loop |-> loop, routeID |-> routeID]

NoReq == LoopData("none", NoLoop, 0)

\* The requests the peer sends: for the loop of the tests and for a loop of
\* another local port, under each route ID.
Requests ==
    {LoopData(kind, AddrLoop(lp, PeerPK, 3), id) :
        kind \in {"ConfirmLoop", "LoopClosed"}, lp \in Ports, id \in RouteIDs}

NoCallback == [kind |-> "none", loop |-> NoLoop, rule |-> NoRule]

\* Mutant of confirmRule: the callback gets the app rule of the loop.
M_confirmRule(table, ld) ==
    LET ids == loopRuleIDs(table, ld.loop, 1) IN
    IF ids = {} THEN NoRule ELSE table[CHOOSE id \in ids : TRUE]

\* The rule handed to the ConfirmLoop callback: the rule under the route ID
\* of the request.
confirmRule(table, ld) == table[ld.routeID]

\* Router.confirmLoop(l, rule). portOK: the port manager has the local port
\* bound; setOK: pm.SetLoop succeeds. A failure to notify the App is logged.
confirmLoop(portOK, setOK) ==
    IF ~portOK THEN "port is not bound"
    ELSE IF ~setOK THEN "set loop failed"
    ELSE "nil"

\* Router.loopClosed(loop). portOK: the port manager has the local port
\* bound; sendOK: the FrameClose reaches the App. With the port bound the loop
\* is destroyed, which removes its rule.
loopClosed(table, loop, portOK, sendOK) ==
    IF ~portOK THEN [err |-> "nil", table |-> table]
    ELSE [err |-> IF sendOK THEN "nil" ELSE "send failed",
          table |-> RemoveLoopRule(table, loop).table]

SetupInit ==
    sv = [pc |-> "idle", req |-> NoReq, calls |-> 0, cb |-> NoCallback,
          ack |-> "none", peer |-> "open", err |-> "none"]

\* The peer sends a request and waits for the response.
SetupSend(ld) ==
    /\ sv.pc = "idle" /\ sv.peer = "open"
    /\ sv' = [sv EXCEPT !.pc = "sent", !.req = ld, !.calls = 0,
                         !.cb = NoCallback, !.ack = "none"]
    /\ UNCHANGED notSetup

\* Serve reads the request and calls the callback for it.
RmServeRequest(portOK, setOK, sendOK) ==
    /\ sv.pc = "sent"
    /\ IF sv.req.kind = "ConfirmLoop"
       THEN IF rt[sv.req.routeID] = NoRule
            THEN /\ sv' = [sv EXCEPT !.pc = "called", !.ack = "no rule"]
                 /\ UNCHANGED rt
            ELSE /\ sv' = [sv EXCEPT
                              !.pc = "called", !.calls = @ + 1,
                              !.cb = [kind |-> "ConfirmLoop", loop |-> sv.req.loop,
                                      rule |-> confirmRule(rt, sv.req)],
                              !.ack = IF confirmLoop(portOK, setOK) = "nil"
                                      THEN "ok" ELSE "failure"]
                 /\ UNCHANGED rt
       ELSE LET r == loopClosed(rt, sv.req.loop, portOK, sendOK) IN
            /\ sv' = [sv EXCEPT
                         !.pc = "called", !.calls = @ + 1,
                         !.cb = [kind |-> "LoopClosed", loop |-> sv.req.loop,
                                 rule |-> NoRule],
                         !.ack = IF r.err = "nil" THEN "ok" ELSE "failure"]
            /\ rt' = r.table
    /\ UNCHANGED <<now, rmRes>>
    /\ UNCHANGED notRouteSetup

\* Serve writes the response: the request is acknowledged to the peer.
RmServeRespond ==
    /\ sv.pc = "called"
    /\ sv' = [sv EXCEPT !.pc = "idle"]
    /\ UNCHANGED notSetup

\* The peer closes the connection.
SetupClose ==
    /\ sv.pc = "idle" /\ sv.peer = "open"
    /\ sv' = [sv EXCEPT !.peer = "closed"]
    /\ UNCHANGED notSetup

\* Serve finds the connection closed and returns.
RmServeReturn ==
    /\ sv.pc = "idle" /\ sv.peer = "closed"
    /\ sv' = [sv EXCEPT !.pc = "returned", !.err = "nil"]
    /\ UNCHANGED notSetup

SetupNext ==
    \/ \E id \in RouteIDs, rule \in Rules : RtSetRule(id, rule)
    \/ \E ld \in Requests : SetupSend(ld)
    \/ \E portOK, setOK, sendOK \in BOOLEAN : RmServeRequest(portOK, setOK, sendOK)
    \/ RmServeRespond
    \/ SetupClose
    \/ RmServeReturn

\* ------------------------------------------------------------------ the App
\* One App: its table of connections by loop, the frames of the node and the
\* local closes.

\* The loops of the App's connections: local port 2 to the remote ports 3 and
\* 2, and local port 3 to the remote port 3.
AppLoops == {AddrLoop(2, PeerPK, 3), AddrLoop(2, PeerPK, 2), AddrLoop(3, PeerPK, 3)}

\* No connection for a loop.
NoConn == [bound |-> FALSE, st |-> "none"]

\* A connection is open and in the table.
IsBound(cs, loop) == cs[loop].bound

\* Mutant of closeConn: the table is emptied.
M_closeConn(cs, loop) ==
    [l \in AppLoops |-> IF cs[l].bound THEN [bound |-> FALSE, st |-> "eof"]
                        ELSE cs[l]]

\* The connection of the loop is closed, so that reads on it return EOF, and
\* its entry is deleted from the table.
closeConn(cs, loop) ==
    IF IsBound(cs, loop)
    THEN [cs EXCEPT ![loop] = [bound |-> FALSE, st |-> "eof"]]
    ELSE cs

\* Mutant of appCloseFrames: no FrameClose is sent for a local close.
M_appCloseFrames(cs, loops) == {}

\* The loops for which a local close sends a FrameClose to the node: those of
\* the closed connections that are in the table.
appCloseFrames(cs, loops) == {l \in loops : IsBound(cs, l)}

\* The connections after the local close of those of loops.
RECURSIVE closeConns(_, _)
closeConns(cs, loops) ==
    IF loops = {} THEN cs
    ELSE LET l == CHOOSE x \in loops : TRUE IN
         closeConns(closeConn(cs, l), loops \ {l})

AppInit ==
    /\ appConns = [l \in AppLoops |-> NoConn]
    /\ appSent = [l \in AppLoops |-> 0]
    /\ appDone = FALSE
    /\ appLast = [op |-> "none", loop |-> NoLoop, seq |-> 0]

\* App.Dial or App.Accept: a connection for the loop is put into the table.
AppOpen(loop) ==
    /\ ~appDone
    /\ appConns[loop].st = "none"
    /\ appConns' = [appConns EXCEPT ![loop] = [bound |-> TRUE, st |-> "open"]]
    /\ appLast' = [op |-> "open", loop |-> loop, seq |-> 1 - appLast.seq]
    /\ UNCHANGED <<appSent, appDone>>
    /\ UNCHANGED notApp

\* The node sends a FrameClose for the loop.
AppFrameClose(loop) ==
    /\ appConns' = closeConn(appConns, loop)
    /\ appLast' = [op |-> "FrameClose", loop |-> loop, seq |-> 1 - appLast.seq]
    /\ UNCHANGED <<appSent, appDone>>
    /\ UNCHANGED notApp

\* The connection of the loop is closed locally.
AppConnClose(loop) ==
    /\ appConns[loop].st = "open"
    /\ appSent' = [l \in AppLoops |->
                      IF l \in appCloseFrames(appConns, {loop})
                      THEN appSent[l] + 1 ELSE appSent[l]]
    /\ appConns' = closeConns(appConns, {loop})
    /\ appLast' = [op |-> "conn.Close", loop |-> loop, seq |-> 1 - appLast.seq]
    /\ UNCHANGED appDone
    /\ UNCHANGED notApp

\* App.Close: every connection of the table is closed locally.
AppClose ==
    /\ ~appDone
    /\ appDone' = TRUE
    /\ appSent' = [l \in AppLoops |->
                      IF l \in appCloseFrames(appConns, AppLoops)
                      THEN appSent[l] + 1 ELSE appSent[l]]
    /\ appConns' = closeConns(appConns, AppLoops)
    /\ appLast' = [op |-> "App.Close", loop |-> NoLoop, seq |-> 1 - appLast.seq]
    /\ UNCHANGED notApp

AppNext ==
    \/ \E loop \in AppLoops : AppOpen(loop)
    \/ \E loop \in AppLoops : AppFrameClose(loop)
    \/ \E loop \in AppLoops : AppConnClose(loop)
    \/ AppClose

\* ----------------------------------------------------- the managed transport
\* One ManagedTransport built by newManagedTransport, a goroutine that calls
\* Read and one that calls Write, the callers of Close, IsClosing and
\* updateTransport, and the consumers of the log and error channels.

Ops == {"Read", "Write"}
MtClosers == 1 .. MaxMtClosers
Transports2 == {"tr0", "tr1"}

\* tr.mu.Lock() goes through when no goroutine holds the mutex.
muLock(mu) == mu.w = "free" /\ mu.r = 0

\* tr.mu.RLock() goes through when no goroutine holds the write lock and none
\* waits for it.
muRLock(mu, pending) == mu.w = "free" /\ ~pending

\* A caller of Close waits in its first tr.mu.Lock().
LockPending == \E j \in MtClosers : mtCl[j] = "lock"

\* readLogChan for Read, writeLogChan for Write.
logChan(op) == IF op = "Read" THEN "readLogChan" ELSE "writeLogChan"

\* Mutant of report: the byte count is sent on the log channel after a
\* failure as well.
M_report(op, ok) ==
    IF ok THEN [log |-> 1, err |-> 0, chan |-> logChan(op)]
    ELSE [log |-> 1, err |-> 1, chan |-> "errChan"]

\* The send of the select of Read and Write after the underlying call: n on
\* the log channel of the operation if err is nil, err on errChan otherwise.
report(op, ok) ==
    IF ok THEN [log |-> 1, err |-> 0, chan |-> logChan(op)]
    ELSE [log |-> 0, err |-> 1, chan |-> "errChan"]

\* The select of Close: doneChan is closed unless it is closed already.
closeDone(d) == IF d > 0 THEN d ELSE d + 1

NoCall == [pc |-> "idle", ok |-> TRUE, log |-> 0, err |-> 0, chan |-> "none",
           done |-> FALSE]

MTInit ==
    /\ mtMu = [w |-> "free", r |-> 0]
    /\ mtClosing = FALSE
    /\ mtDone = 0
    /\ mtOp = [op \in Ops |-> NoCall]
    /\ mtCl = [j \in MtClosers |-> "idle"]
    /\ mtLast = [op |-> "none", b |-> FALSE]
    /\ mtTr = "tr0"

\* Read or Write is called: tr.mu.RLock() and the call of the underlying
\* transport.
RWLock(op) ==
    /\ mtOp[op].pc \in {"idle", "returned"}
    /\ muRLock(mtMu, LockPending)
    /\ mtMu' = [mtMu EXCEPT !.r = @ + 1]
    /\ mtOp' = [mtOp EXCEPT ![op] = [NoCall EXCEPT !.pc = "io"]]
    /\ UNCHANGED <<mtClosing, mtDone, mtCl, mtLast, mtTr>>
    /\ UNCHANGED notMT

\* The underlying Read or Write returns, with a nil error if ok:
\* tr.mu.RUnlock(), and the call enters its select.
RWUnlock(op, ok) ==
    /\ mtOp[op].pc = "io"
    /\ mtMu' = [mtMu EXCEPT !.r = @ - 1]
    /\ mtOp' = [mtOp EXCEPT ![op].pc = "select", ![op].ok = ok]
    /\ UNCHANGED <<mtClosing, mtDone, mtCl, mtLast, mtTr>>
    /\ UNCHANGED notMT

\* The cases of the select of Read and Write that are ready: the receive
\* from doneChan once it is closed, the send once a consumer receives.
selectCases(doneClosed, recv) ==
    (IF doneClosed THEN {"done"} ELSE {}) \cup (IF recv THEN {"send"} ELSE {})

\* The select of Read or Write takes one of its ready cases and the call
\* returns; recv: a consumer receives from the channel the select sends on.
RWSelect(op, recv) ==
    /\ mtOp[op].pc = "select"
    /\ \E c \in selectCases(mtDone > 0, recv) :
          IF c = "send"
          THEN LET r == report(op, mtOp[op].ok) IN
               mtOp' = [mtOp EXCEPT ![op].pc = "returned", ![op].log = r.log,
                                    ![op].err = r.err, ![op].chan = r.chan,
                                    ![op].done = mtDone > 0]
          ELSE mtOp' = [mtOp EXCEPT ![op].pc = "returned", ![op].done = TRUE]
    /\ UNCHANGED <<mtMu, mtClosing, mtDone, mtCl, mtLast, mtTr>>
    /\ UNCHANGED notMT

\* IsClosing: the flag read under the read lock.
IsClosing ==
    /\ muRLock(mtMu, LockPending)
    /\ mtLast' = [op |-> "IsClosing", b |-> mtClosing]
    /\ UNCHANGED <<mtMu, mtClosing, mtDone, mtOp, mtCl, mtTr>>
    /\ UNCHANGED notMT

\* updateTransport(newTr): the transport replaced under the write lock.
updateTransport(newTr) ==
    /\ muLock(mtMu)
    /\ mtTr' = newTr
    /\ mtLast' = [op |-> "updateTransport", b |-> FALSE]
    /\ UNCHANGED <<mtMu, mtClosing, mtDone, mtOp, mtCl>>
    /\ UNCHANGED notMT

\* Caller j enters Close and asks for the write lock.
MtCloseCall(j) ==
    /\ mtCl[j] = "idle"
    /\ mtCl' = [mtCl EXCEPT ![j] = "lock"]
    /\ UNCHANGED <<mtMu, mtClosing, mtDone, mtOp, mtLast, mtTr>>
    /\ UNCHANGED notMT

\* Caller j gets the write lock: tr.Transport.Close(), isClosing = true, then
\* tr.mu.Lock() a second time; if that goes through, the select on doneChan
\* and the return.
MtClose(j) ==
    /\ mtCl[j] = "lock"
    /\ muLock(mtMu)
    /\ mtClosing' = TRUE
    /\ LET held == [mtMu EXCEPT !.w = "Close"] IN
       IF muLock(held)
       THEN /\ mtMu' = held
            /\ mtDone' = closeDone(mtDone)
            /\ mtCl' = [mtCl EXCEPT ![j] = "returned"]
       ELSE /\ mtMu' = held
            /\ mtDone' = mtDone
            /\ mtCl' = [mtCl EXCEPT ![j] = "relock"]
    /\ UNCHANGED <<mtOp, mtLast, mtTr>>
    /\ UNCHANGED notMT

MTNext ==
    \/ \E op \in Ops : RWLock(op)
    \/ \E op \in Ops, ok \in BOOLEAN : RWUnlock(op, ok)
    \/ \E op \in Ops, recv \in BOOLEAN : RWSelect(op, recv)
    \/ IsClosing
    \/ \E newTr \in Transports2 : updateTransport(newTr)
    \/ \E j \in MtClosers : MtCloseCall(j)
    \/ \E j \in MtClosers : MtClose(j)

\* ------------------------------------------------------------- the router
\* One Router, the App served by Router.ServeApp on its port, the loops that
\* setup nodes confirm and close on the router's ports, and the loops the App
\* asks for.

\* The port ServeApp is called with, and the port portManager.Alloc hands out.
AppPort == "app"
AllocPort == "alloc"
RouterPorts == {AppPort, AllocPort}

\* Remote addresses of loops.
RAddrs == {"ra", "rb"}

\* The remote of a loop the App asks for: the router's own key, a key with an
\* address in the table of the TCP transport factory, or any other key.
RemoteKinds == {"self", "tcp", "dmsg"}

NoPort == [open |-> FALSE, loops |-> {}]

\* portManager.Open(port, proto) and portManager.Alloc(proto): the port is bound.
pmOpen(ports, port) == [ports EXCEPT ![port] = [open |-> TRUE, loops |-> {}]]

\* portManager.SetLoop(port, raddr, loop)
pmSetLoop(ports, port, raddr) == [ports EXCEPT ![port].loops = @ \cup {raddr}]

\* portManager.RemoveLoop(port, raddr)
pmRemoveLoop(ports, port, raddr) == [ports EXCEPT ![port].loops = @ \ {raddr}]

\* portManager.Close(port): the binding is removed with all its loops.
pmClose(ports, port) == [ports EXCEPT ![port] = NoPort]

\* Router.destroyLoop(loop): what is left of the port manager and of the
\* rules. The loop is removed from a port found in staticPorts; any other port
\* is closed; then routeManager.RemoveLoopRule(loop).
destroyLoop(ports, static, rules, port, raddr) ==
    [ports |-> IF port \in static
               THEN pmRemoveLoop(ports, port, raddr)
               ELSE pmClose(ports, port),
     rules |-> rules \ {<<port, raddr>>}]

\* The loop of ServeApp after the session: every port of the App is closed
\* and closeLoop, hence destroyLoop, is called for each of its loops.
closeAppPorts(ports, rules) ==
    [ports |-> [p \in RouterPorts |-> NoPort],
     rules |-> {l \in rules : l[2] \notin ports[l[1]].loops}]

\* Router.confirmTCPLoop(laddr, raddr). getOK: the remote port is bound;
\* sendOK: the FrameConfirmLoop reaches its App; the error of
\* CreateDataTransport is logged.
confirmTCPLoop(getOK, sendOK, trOK) ==
    IF ~getOK THEN "port is not bound"
    ELSE IF ~sendOK THEN "send failed"
    ELSE "nil"

\* Router.confirmLocalLoop(laddr, raddr)
confirmLocalLoop(getOK, sendOK) ==
    IF ~getOK THEN "port is not bound"
    ELSE IF ~sendOK THEN "send failed"
    ELSE "nil"

\* Router.requestLoop(appConn, raddr) after portManager.Alloc. setOK: SetLoop
\* succeeds; routesOK: the route finder answers; getOK, sendOK, trOK: the
\* steps of the confirmation; protoOK, createOK: the setup transport is
\* created and setup.CreateLoop succeeds. On the TCP path the error returned
\* is the one fetchBestRoutes left in err, which is nil there.
requestLoop(kind, setOK, routesOK, getOK, sendOK, trOK, protoOK, createOK) ==
    IF ~setOK THEN [laddr |-> FALSE, err |-> "set loop failed"]
    ELSE IF kind = "self"
    THEN (IF confirmLocalLoop(getOK, sendOK) # "nil"
          THEN [laddr |-> FALSE, err |-> "confirm"]
          ELSE [laddr |-> TRUE, err |-> "nil"])
    ELSE IF ~routesOK THEN [laddr |-> FALSE, err |-> "route finder"]
    ELSE IF kind = "tcp"
    THEN [laddr |-> TRUE, err |-> "nil"]
    ELSE IF ~protoOK THEN [laddr |-> FALSE, err |-> "setup transport"]
    ELSE IF ~createOK THEN [laddr |-> FALSE, err |-> "route setup"]
    ELSE [laddr |-> TRUE, err |-> "nil"]

RouterInit ==
    /\ rPorts = [p \in RouterPorts |-> NoPort]
    /\ rStatic = {}
    /\ rApp = "idle"
    /\ rRules = {}
    /\ crRes = [kind |-> "none", laddr |-> FALSE, err |-> "none", stepOK |-> FALSE]

\* Router.ServeApp(conn, port, appConf) up to r.pm.Open(port, appProto); if
\* the port is bound already, ServeApp returns the error.
ServeAppOpen ==
    /\ rApp \in {"idle", "done"}
    /\ IF rPorts[AppPort].open
       THEN rApp' = "done" /\ UNCHANGED rPorts
       ELSE rApp' = "opened" /\ rPorts' = pmOpen(rPorts, AppPort)
    /\ UNCHANGED <<rStatic, rRules, crRes>>
    /\ UNCHANGED notRouter

\* r.staticPorts[port] = struct{}{} under r.mu; then am.Serve() runs.
ServeAppMark ==
    /\ rApp = "opened"
    /\ rStatic' = rStatic \cup {AppPort}
    /\ rApp' = "serving"
    /\ UNCHANGED <<rPorts, rRules, crRes>>
    /\ UNCHANGED notRouter

\* am.Serve() returns: the session of the App has ended.
ServeAppEnd ==
    /\ rApp = "serving"
    /\ rApp' = "ended"
    /\ UNCHANGED <<rPorts, rStatic, rRules, crRes>>
    /\ UNCHANGED notRouter

\* The ports of the App are closed and their loops destroyed.
ServeAppCleanup ==
    /\ rApp = "ended"
    /\ LET r == closeAppPorts(rPorts, rRules) IN
       rPorts' = r.ports /\ rRules' = r.rules
    /\ rApp' = "cleaned"
    /\ UNCHANGED <<rStatic, crRes>>
    /\ UNCHANGED notRouter

\* delete(r.staticPorts, port) under r.mu, and ServeApp returns.
ServeAppReturn ==
    /\ rApp = "cleaned"
    /\ rStatic' = rStatic \ {AppPort}
    /\ rApp' = "done"
    /\ UNCHANGED <<rPorts, rRules, crRes>>
    /\ UNCHANGED notRouter

\* A setup node has added the rule of a loop and calls the ConfirmLoop
\* callback: Router.confirmLoop finds the port bound and sets the loop.
RemoteConfirm(port, raddr) ==
    /\ rPorts[port].open
    /\ rPorts' = pmSetLoop(rPorts, port, raddr)
    /\ rRules' = rRules \cup {<<port, raddr>>}
    /\ UNCHANGED <<rStatic, rApp, crRes>>
    /\ UNCHANGED notRouter

\* Router.destroyLoop(loop), called by loopClosed for a setup node or by
\* closeLoop for the App.
DestroyLoop(port, raddr) ==
    /\ rPorts[port].open
    /\ LET r == destroyLoop(rPorts, rStatic, rRules, port, raddr) IN
       rPorts' = r.ports /\ rRules' = r.rules
    /\ UNCHANGED <<rStatic, rApp, crRes>>
    /\ UNCHANGED notRouter

\* Router.CreateLoop(conn, raddr) called for the App during its session:
\* portManager.Alloc binds a port for the App, SetLoop sets the loop on it,
\* and the loop is confirmed or set up according to the remote key.
CreateLoop(kind, raddr, setOK, routesOK, getOK, sendOK, trOK, protoOK, createOK) ==
    /\ rApp = "serving"
    /\ LET r == requestLoop(kind, setOK, routesOK, getOK, sendOK, trOK,
                            protoOK, createOK)
           bound == pmOpen(rPorts, AllocPort)
       IN
       /\ rPorts' = IF setOK THEN pmSetLoop(bound, AllocPort, raddr) ELSE bound
       /\ crRes' = [kind |-> kind, laddr |-> r.laddr, err |-> r.err,
                    stepOK |-> CASE kind = "self" -> getOK /\ sendOK
                                 [] kind = "tcp" -> getOK /\ sendOK /\ trOK
                                 [] OTHER -> protoOK /\ createOK]
    /\ UNCHANGED <<rStatic, rApp, rRules>>
    /\ UNCHANGED notRouter

RouterNext ==
    \/ ServeAppOpen
    \/ ServeAppMark
    \/ ServeAppEnd
    \/ ServeAppCleanup
    \/ ServeAppReturn
    \/ \E port \in RouterPorts, raddr \in RAddrs : RemoteConfirm(port, raddr)
    \/ \E port \in RouterPorts, raddr \in RAddrs : DestroyLoop(port, raddr)
    \/ \E kind \in RemoteKinds, raddr \in RAddrs, setOK \in BOOLEAN,
          routesOK \in BOOLEAN, getOK \in BOOLEAN, sendOK \in BOOLEAN,
          trOK \in BOOLEAN, protoOK \in BOOLEAN, createOK \in BOOLEAN :
          CreateLoop(kind, raddr, setOK, routesOK, getOK, sendOK, trOK,
                     protoOK, createOK)

Init ==
    /\ LinkInit /\ RelayInit /\ LifeInit /\ ClientInit /\ ServerInit /\ ChanInit
    /\ RouteInit /\ SetupInit /\ AppInit /\ MTInit /\ RouterInit

Next ==
    \/ Dial
    \/ \E i \in 1 .. MaxDials : DialCancel(i)
    \/ \E ft \in FrameTypes, id \in IDs :
          \E p \in (IF ft = RequestType THEN Payloads ELSE {NoPayload}) :
             Serve(ft, id, p)
    \/ AcceptCall
    \/ AcceptCancel
    \/ AcceptRecv

Spec == Init /\ [][Next]_vars

SpecRelay == Init /\ [][RelayNext]_vars

SpecLife == Init /\ [][LifeNext]_vars

SpecClient == Init /\ [][ClientNext]_vars

SpecClientLists == Init /\ [][ClientListsNext]_vars

SpecServer == Init /\ [][ServerNext]_vars

SpecChan == Init /\ [][ChanNext]_vars

SpecRoute == Init /\ [][RouteNext]_vars

SpecSetup == Init /\ [][SetupNext]_vars

SpecApp == Init /\ [][AppNext]_vars

SpecMT == Init /\ [][MTNext]_vars

SpecRouter == Init /\ [][RouterNext]_vars

\* The scheduler runs the callers of Close, Read and Write whenever they can
\* take a step; whether a consumer receives from the log and error channels
\* is the consumer's choice.
SpecMTLive ==
    /\ Init
    /\ [][MTNext]_vars
    /\ \A j \in MtClosers : WF_vars(MtClose(j))
    /\ \A op \in Ops : WF_vars(RWSelect(op, FALSE)) /\ WF_vars(\E ok \in BOOLEAN : RWUnlock(op, ok))

\* The scheduler runs every goroutine that can take a step, and a free mutex
\* is given to a goroutine that waits for it.
SpecClientLive ==
    /\ Init
    /\ [][ClientNext]_vars
    /\ \A j \in Closers : WF_vars(CloseRun(j)) /\ WF_vars(CloseReturn(j))

\* The scheduler runs the goroutine of Link.Serve and the caller of
\* Link.Close whenever they can take a step. Frames arrive and callers enter
\* Client.Accept as the peer and the application choose.
SpecLifeLive ==
    /\ Init
    /\ [][LifeNext]_vars
    /\ WF_vars(ServeEnter) /\ WF_vars(ServeWritten) /\ WF_vars(ServeReturn)
    /\ WF_vars(LinkCloseReturn)

\* ------------------------------------------------------- claims on the link

\* Channels handed out by Link.Dial that are not done.
LiveDialed == {i \in 1 .. Len(dialed) : ~dialed[i].done}

\* Slots of the table that hold a channel that is not done.
LiveSlots == {s \in Slots : chans[s] # Nil /\ ~chans[s].done}

\* Every even ID is the ID of a live channel of the link.
AllEvenHeld ==
    \A id \in IDs :
        id % 2 = 0 =>
            \/ \E i \in LiveDialed : dialed[i].id = id
            \/ id \in LiveSlots

\* The Close frame the reader loop writes back on an ID.
CloseReply(id) == [ft |-> CloseType, id |-> id, p |-> <<0>>]

\* C2: no two live channels of the link have the same channel ID, dialed
\* channels that are still handshaking and IDs handed out after the counter
\* has wrapped included.
C2_UniqueLiveIDs ==
    /\ \A i, j \in LiveDialed : i # j => dialed[i].id # dialed[j].id
    /\ \A i \in LiveDialed : dialed[i].id \notin LiveSlots

\* C3: a dial inserts its handshaking channel into the table in the step that
\* allocates its ID, so the entry is there once the Request frame of the
\* channel has been written.
C3_EntryBeforeRequest ==
    \A i \in LiveDialed :
        dialed[i].req.ft = RequestType =>
            /\ chans[dialed[i].id] # Nil
            /\ chans[dialed[i].id].remote = dialed[i].remote

\* C4: every ID handed out by Link.addChan is even, also after the counter
\* has wrapped, and the reader loop creates a channel from a Request only on
\* an odd ID.
C4_Parity ==
    /\ \A i \in 1 .. Len(dialed) : dialed[i].id % 2 = 0
    /\ (last.created => last.id % 2 = 1)
    /\ \A s \in Slots : chans[s] # Nil => s % 2 = 1

\* C4 witness: the counter has wrapped (an ID was handed out twice) and the
\* reader has just refused an otherwise acceptable Request on an even ID.
C4_Witness ==
    /\ \E i, j \in 1 .. Len(dialed) : i < j /\ dialed[i].id = dialed[j].id
    /\ last.ft = RequestType /\ last.id % 2 = 0
    /\ last.p = <<PeerPK, NewLinkLocal>>
    /\ ~last.created

\* C5: while every even ID is held by a live channel, a dial hands out no
\* channel and fails with the exhausted-IDs error.
C5_ExhaustedDialFails ==
    [][AllEvenHeld =>
          /\ Len(dialed') = Len(dialed)
          /\ (addRes' # addRes => addRes'.err = "ExhaustedChannelIDs")]_vars

\* The last frame was a Request on a slot with no live channel whose payload
\* is not two keys or names a responder other than the link's local key.
BadRequest ==
    /\ last.ft = RequestType
    /\ last.id \in Slots
    /\ ~last.ok
    /\ (Len(last.p) # 2 \/ last.p[2] # NewLinkLocal)

C7_RequestForClientAccepted ==
    ( /\ last.ft = RequestType
      /\ last.id \in Slots /\ last.id % 2 = 1
      /\ ~last.ok
      /\ Len(last.p) = 2 /\ last.p[2] = ClientPK )
    => /\ last.created
       /\ (last.res = "send" =>
              chans[last.id] # Nil /\ chans[last.id].remote = last.p[1])
       /\ (last.res # "send" => got # Nil /\ got.id = last.id)

\* C8: on a slot with no live channel an Accept or Data frame is answered
\* with exactly one Close on its ID and a Close frame with nothing; the slot
\* is empty afterwards and the reader is back at reading.
C8_EmptySlot ==
    (last.ft \in {AcceptType, DataType, CloseType} /\ last.id \in Slots /\ ~last.ok)
    => /\ last.wrote = (IF last.ft = CloseType THEN <<>>
                        ELSE <<CloseReply(last.id)>>)
       /\ chans[last.id] = Nil
       /\ pc = "read"

\* C8 witness: a Data frame on an empty slot was answered with a Close.
C8_Witness ==
    /\ last.ft = DataType /\ last.id \in Slots /\ ~last.ok
    /\ last.wrote = <<CloseReply(last.id)>>
    /\ pc = "read"

\* C9: the reader writes at most one frame for each frame it receives.
C9_NoAmplification == Len(last.wrote) <= 1

\* C9 witness: a received frame was answered with one frame.
C9_Witness ==
    /\ last.ft \in {RequestType, AcceptType}
    /\ Len(last.wrote) = 1

\* C10: the reader loop does not wait for a consumer: with no caller in
\* Client.Accept it is still at reading frames.
C10_ReaderNeverWaits ==
    (Alive /\ waiting = 0) => pc = "read"

\* C14: a dial returns its channel once the reader loop has handled an Accept
\* frame on the channel's ID, and fails with the Rejected error, the slot
\* cleared, once the reader loop has handled a Close frame on it: the frame
\* reaches the channel (the slot holds it) and no Close is written back.
C14_DialAnswered ==
    [][\A ft \in {AcceptType, CloseType}, id \in IDs :
          ( /\ Serve(ft, id, NoPayload)
            /\ \E i \in LiveDialed : dialed[i].id = id )
          => /\ last'.ok
             /\ last'.wrote = <<>>
             /\ (ft = CloseType =>
                    /\ chans'[id] = Nil
                    /\ \A i \in 1 .. Len(dialed) :
                          dialed[i].id = id => dialed'[i].done)]_vars


\* ---------------------------------------------------- claims on transports

\* The bytes written so far on transport k, in write order.
Stream(k) == Bytes(k, 1, written[k])

IsPrefix(s, t) == Len(s) <= Len(t) /\ \A i \in 1 .. Len(s) : s[i] = t[i]

\* Transport k is open at both clients, paired at the server, and no frame
\* is in flight on any link.
Intact(k) ==
    /\ eps[<<k, Writer>>].st = "Open"
    /\ eps[<<k, Reader>>].st = "Open"
    /\ relay[<<Writer, eps[<<k, Writer>>].id>>] = <<Reader, eps[<<k, Reader>>].id>>
    /\ relay[<<Reader, eps[<<k, Reader>>].id>>] = <<Writer, eps[<<k, Writer>>].id>>
    /\ \A c \in Clients : up[c] = <<>> /\ down[c] = <<>>

C1_Series ==
    /\ eps[<<1, Writer>>].st = "Closed" /\ eps[<<1, Reader>>].st = "Closed"
    /\ eps[<<1, Writer>>].id % 2 = 0
    /\ eps[<<2, Writer>>].st = "Open" /\ eps[<<2, Writer>>].id % 2 = 0
    /\ readLog[1] = Stream(1) /\ written[1] = MaxBytes
    /\ readLog[2] = Stream(2) /\ written[2] = MaxBytes

\* C21: the relay entries of the server come in symmetric pairs: the entry
\* under the initiator's even ID on its link names the odd ID allocated on
\* the peer's link, and the entry under that odd ID names the initiator's
\* ID; and every frame other than a Request that arrives on a paired ID is
\* forwarded on the paired link under the paired ID, otherwise unchanged.
Paired(c, i) == relay[<<c, i>>] # NoEntry

Symmetric ==
    \A c \in Clients, i \in IDs :
        Paired(c, i) =>
            /\ relay[<<c, i>>][1] = Other(c)
            /\ relay[relay[<<c, i>>]] = <<c, i>>
            /\ i % 2 # relay[<<c, i>>][2] % 2

\* The step of the server on the head frame of the link to client c.
Relayed(c) ==
    /\ up[c] # <<>>
    /\ up' = [up EXCEPT ![c] = Tail(@)]
    /\ Head(up[c]).ft # RequestType
    /\ Paired(c, Head(up[c]).id)

ForwardedUnderPairedID(c) ==
    LET f == Head(up[c])
        entry == relay[<<c, f.id>>]
    IN down'[entry[1]] = Append(down[entry[1]], [f EXCEPT !.id = entry[2]])

C21_SymmetricPairing ==
    /\ []Symmetric
    /\ [][\A c \in Clients : Relayed(c) => ForwardedUnderPairedID(c)]_vars

\* A transport dialed by one client and accepted by the other, both ends
\* Open and paired on the server, whose bytes were relayed and read.
C21_Witness ==
    \E k \in Transports, c \in Clients :
        /\ eps[<<k, c>>].st = "Open" /\ eps[<<k, c>>].id % 2 = 0
        /\ eps[<<k, Other(c)>>].st = "Open" /\ eps[<<k, Other(c)>>].held
        /\ relay[<<c, eps[<<k, c>>].id>>] = <<Other(c), eps[<<k, Other(c)>>].id>>
        /\ relay[<<Other(c), eps[<<k, Other(c)>>].id>>] = <<c, eps[<<k, c>>].id>>
        /\ readLog[k] # <<>>

\* ------------------------------------------------------ claims on the client

\* The latest Client.Dial found the entry of the dialed client, and the entry
\* lists at least one delegated server.
DialLooked ==
    dl.pc # "idle" /\ dl.err # "get entry failure" /\ Len(dl.srvPKs) > 0

\* Positions in the delegated-server list of the servers the client was
\* linked to when the latest Client.Dial was called.
LinkedAtDial == {i \in 1 .. Len(dl.srvPKs) : dl.before[dl.srvPKs[i]] # NoLink}

\* C13: Client.Dial dials on the existing link to the first delegated server
\* the client is linked to and opens no connection then; with none linked it
\* opens a link to one of the delegated servers; the link it dials on is
\* never nil.
C13_DialUsesLinkedServer ==
    DialLooked =>
        /\ dl.pc # "panic"
        /\ LinkedAtDial # {} =>
              /\ dl.opened = 0
              /\ dl.link = dl.before[dl.srvPKs[
                     CHOOSE i \in LinkedAtDial : \A k \in LinkedAtDial : i <= k]]
        /\ (LinkedAtDial = {} /\ dl.pc = "handshake") =>
              /\ dl.opened = 1
              /\ dl.link # NoLink

\* C15: Client.Dial to a client whose entry lists no delegated servers
\* returns the no-delegated-server error; it opens no connection, calls
\* Link.Dial on no link (no channel ID, no frame) and leaves the link map as
\* it was.
C15_NoDelegatedServer ==
    (dl.pc # "idle" /\ dl.err # "get entry failure" /\ dl.srvPKs = <<>>) =>
        /\ dl.pc = "done"
        /\ dl.err = "ErrNoSrv"
        /\ dl.opened = 0
        /\ dl.link = NoLink
        /\ dl.after = dl.before

\* C15 witness: a dial to a client with no delegated servers has returned
\* the error while a caller of Client.Accept was waiting.
C15_Witness ==
    /\ dl.pc = "done" /\ dl.srvPKs = <<>> /\ dl.err = "ErrNoSrv"
    /\ dl.after = links
    /\ acc.waiting > 0

\* The first n servers of the discovery client's list that can be connected.
FirstConnecting(n, connOK) ==
    {ServerList[i] : i \in
        {i \in 1 .. Len(ServerList) :
            /\ connOK[ServerList[i]]
            /\ Cardinality({k \in 1 .. (i - 1) : connOK[ServerList[k]]}) < n}}

\* C16: Client.InitiateLinks(n) on an empty link map links at most n
\* servers: the first n of the discovery client's list that can be connected.
C16_AtMostN ==
    (il.pc \in {"rlock", "done"} /\ il.fromEmpty
        /\ il.err # "messaging servers are not available") =>
        /\ Cardinality(il.linked) <= il.n
        /\ il.linked = FirstConnecting(il.n, il.connOK)

\* C17: a Client.InitiateLinks call in which a server connects returns nil in
\* the end, with the client's discovery entry listing the keys of the link
\* map; a call in which the list is not fetched or no server connects
\* returns an error.
C17_InitiateLinksReturns ==
    /\ [](il.pc = "done" /\ il.err = "nil" =>
             disc = [present |-> TRUE, servers |-> il.linked])
    /\ [](il.pc = "done" /\ il.linked = {} => il.err # "nil")
    /\ (il.pc = "rlock") ~> (crashed \/ (il.pc = "done" /\ il.err = "nil"))

\* C18: every Client.Close call returns nil in the end, and once calls have
\* returned the map is empty and c.accept has been closed exactly once.
C18_CloseIdempotent ==
    /\ [](\A j \in Closers :
             cl[j].pc = "done" =>
                 cl[j].err = "nil" /\ cl[j].mapLen = 0 /\ acc.closes = 1)
    /\ \A j \in Closers : (cl[j].pc = "lock") ~> (crashed \/ cl[j].pc = "done")

\* C22: once Client.Close has been called on a client, its link map is empty
\* in the end (the links are closed, and with them the channels of every
\* transport, so that the server is left without a relay pair and without a
\* link to the client).
C22_ClosedClientHasNoLink ==
    \A j \in Closers : (cl[j].pc = "lock") ~> (crashed \/ Linked(links) = {})

\* The Links whose reader loop has ended with an error and that are still the
\* entry of their server in the link map.
LostLinks ==
    {l \in DOMAIN lobj : lobj[l].rd = "dellink" /\ links[lobj[l].srv] = l}

\* C25: a Link whose reader loop has ended with an error leaves the client's
\* link map in the end (so that a later InitiateLinks links the server again
\* and Dial has a link to dial on).
C25_LostLinkRemoved == (LostLinks # {}) ~> (crashed \/ LostLinks = {})

C19_Received ==
    /\ acc.res = "chan" /\ Len(acc.got) = 1
    /\ il.pc = "rlock"

\* Reachable as well: Client.Accept has returned its context's error while a
\* Link was waiting to send a channel.
C19_Cancelled ==
    /\ acc.res = "ctx.Err"
    /\ \E l \in DOMAIN lobj : lobj[l].rd = "send"

\* ------------------------------------------------------ claims on the server

\* The live links of the client with key pk.
LiveLinks(pk) == {l \in DOMAIN slinks : slinks[l].live /\ slinks[l].remoteClient = pk}

\* C20: the server holds at most one live link for each client key; the map
\* has one entry for each connected client, keyed by the key the link
\* records; the entry of a key is the link that connected last, and a link
\* that was replaced has no open channel.
C20_OneLinkPerKey ==
    /\ \A pk \in ClientKeys :
          /\ Cardinality(LiveLinks(pk)) <= 1
          /\ conns[pk] # NoLink =>
                /\ slinks[conns[pk]].remoteClient = pk
                /\ LiveLinks(pk) = {conns[pk]}
                /\ \A l \in DOMAIN slinks :
                      slinks[l].remoteClient = pk => l <= conns[pk]
          /\ conns[pk] = NoLink => LiveLinks(pk) = {}
    /\ Cardinality({pk \in ClientKeys : conns[pk] # NoLink})
          = Cardinality({pk \in ClientKeys : LiveLinks(pk) # {}})
    /\ \A l \in DOMAIN slinks : ~slinks[l].live => slinks[l].open = 0

\* C20 witness: two clients are connected, and one of them connected again
\* while its first link had open channels: the map has two entries, the entry
\* of that client is its second link, and the channels of the first link are
\* closed.
C20_Witness ==
    /\ Cardinality({pk \in ClientKeys : conns[pk] # NoLink}) = 2
    /\ \E l \in DOMAIN slinks :
          /\ ~slinks[l].live /\ slinks[l].closed = MaxChans
          /\ conns[slinks[l].remoteClient] > l

\* C23: Server.close returns without error; once it has returned no link of
\* the server is readable, the map is empty and the server's links no longer
\* change (no channel is opened, no frame is relayed), whatever is called
\* next, a further Server.close included.
C23_ServerClose ==
    /\ [](server.calls > 0 =>
             /\ server.err = "nil"
             /\ \A l \in DOMAIN slinks : ~slinks[l].live /\ slinks[l].open = 0
             /\ \A pk \in ClientKeys : conns[pk] = NoLink)
    /\ [][server.calls > 0 => slinks' = slinks /\ conns' = conns /\ server'.err = "nil"]_vars

\* C23 witness: Server.close was called twice on a server that had a link
\* with open channels.
C23_Witness ==
    /\ server.calls = MaxSrvCloses
    /\ \E l \in DOMAIN slinks : slinks[l].closed > 0

\* ---------------------------------------------------- claims on the channel

\* The positions of the Close frames among the frames the channel emitted.
CloseFrames == {i \in 1 .. Len(chOut) : chOut[i].ft = CloseType}

\* C24: over any number of Channel.close calls the channel emits at most one
\* Close frame on its ID and every call succeeds; a Channel.write made after
\* the local close fails with ChannelClosed and emits nothing: no Data frame
\* follows the Close frame.
C24_CloseIdempotent ==
    /\ Cardinality(CloseFrames) <= 1
    /\ \A i \in CloseFrames : chOut[i].id = ChID /\ i = Len(chOut)
    /\ chRes.op = "Close" => chRes.err = "nil"
    /\ chRes.op = "Close" /\ chRes.afterClose => chRes.n = 0
    /\ chRes.op = "Write" /\ chRes.afterClose =>
          chRes.err = "ChannelClosed" /\ chRes.n = 0

\* C24 witness: after a write that emitted Data frames the channel was closed
\* twice, and a write was made after that.
C24_Witness ==
    /\ chCalls.closes = MaxChCloses
    /\ chRes.op = "Write" /\ chRes.afterClose
    /\ \E i \in 1 .. Len(chOut) : chOut[i].ft = DataType
    /\ CloseFrames # {}

\* ---------------------------------------------- claims on the route manager

\* A step that is a call of op on the route manager.
RmCall(op) == rmRes'.seq # rmRes.seq /\ rmRes'.op = op

\* C26: routeManager.GetRule returns an error for a route ID without a rule
\* and for a rule whose expiry time has passed, and returns the stored rule
\* for a rule that has not expired; the call leaves the routing table as it
\* was.
C26_GetRule ==
    [][RmCall("GetRule") =>
          /\ rt' = rt
          /\ (rmRes'.id \notin RouteIDs \/ rt[rmRes'.id] = NoRule) =>
                 rmRes'.err # "nil"
          /\ (rmRes'.id \in RouteIDs /\ rt[rmRes'.id] # NoRule) =>
                 IF rt[rmRes'.id].expiry < now
                 THEN rmRes'.err # "nil"
                 ELSE rmRes'.err = "nil" /\ rmRes'.rule = rt[rmRes'.id]]_vars

\* C26 witness: GetRule has returned an error for a rule that is in the table
\* and has expired.
C26_Witness ==
    /\ rmRes.op = "GetRule" /\ rmRes.err # "nil"
    /\ rmRes.id \in RouteIDs
    /\ rt[rmRes.id] # NoRule /\ rt[rmRes.id].expiry < now

\* C27: routeManager.RemoveLoopRule(loop) deletes the app rules whose local
\* port, remote key and remote port are those of the loop, leaves every other
\* rule as it was, and returns no error, also when it deletes nothing.
C27_RemoveLoopRule ==
    [][RmCall("RemoveLoopRule") =>
          /\ rmRes'.err = "nil"
          /\ \A id \in RouteIDs :
                rt'[id] = IF /\ rt[id].type = "App"
                             /\ rt[id].localPort = rmRes'.loop.localPort
                             /\ rt[id].remotePK = rmRes'.loop.remotePK
                             /\ rt[id].remotePort = rmRes'.loop.remotePort
                          THEN NoRule
                          ELSE rt[id]]_vars

\* C27 witness: RemoveLoopRule has deleted the rule of the loop and has left
\* an app rule of the same remote address and another local port.
C27_Witness ==
    /\ rmRes.op = "RemoveLoopRule" /\ rmRes.removed = 1
    /\ \E id \in RouteIDs :
          /\ rt[id].type = "App"
          /\ rt[id].remotePK = rmRes.loop.remotePK
          /\ rt[id].remotePort = rmRes.loop.remotePort
          /\ rt[id].localPort # rmRes.loop.localPort

\* The request in hand has been acknowledged to the peer.
Acknowledged == sv.pc \in {"idle", "returned"} /\ sv.req # NoReq

C28_LoopClosed ==
    /\ Acknowledged /\ sv.req.kind = "LoopClosed"
    /\ sv.calls = 1 /\ sv.cb.loop = sv.req.loop

\* ------------------------------------------------------ claims on the App

\* A step that is the event op on the App.
AppEvent(op) == appLast'.seq # appLast.seq /\ appLast'.op = op

\* C29: a FrameClose of the node for a loop of the table closes the
\* connection of that loop, so that reads return EOF, and deletes its entry;
\* the connections and entries of the other loops stay as they were, and so
\* does everything when the loop is not in the table.
C29_FrameCloseClosesConn ==
    [][AppEvent("FrameClose") =>
          \A l \in AppLoops :
             IF l = appLast'.loop /\ appConns[l].bound
             THEN appConns'[l].st = "eof" /\ ~appConns'[l].bound
             ELSE appConns'[l] = appConns[l]]_vars

\* C29 witness: the node has closed one of two open connections.
C29_Witness ==
    /\ appLast.op = "FrameClose"
    /\ appConns[appLast.loop].st = "eof"
    /\ appSent[appLast.loop] = 0
    /\ \E l \in AppLoops : appConns[l].bound /\ appConns[l].st = "open"

\* The loops whose connection the step closes locally.
ClosedLocally ==
    IF appLast'.op = "conn.Close" THEN {appLast'.loop}
    ELSE {l \in AppLoops : appConns[l].bound}

C30_ConnClose ==
    /\ appLast.op = "conn.Close" /\ appSent[appLast.loop] = 1
    /\ \E l \in AppLoops : appConns[l].bound

\* ------------------------------------------------ claims on the link's life

\* C11: at most one goroutine is inside a write on the link's connection at
\* any time, the Close replies of the reader loop and the frames of the
\* link's channels included.
C11_OneWriter == Cardinality(Writers) <= 1

\* C12: when Link.Close has returned, no channel of the link was left open
\* when the connection was closed, and the goroutine of Link.Serve is not
\* still to run or running: it was never started or has exited.
C12_CloseWaitsForReader ==
    closer.pc = "returned" =>
        /\ closer.left = {}
        /\ closer.rd \in {"none", "exited"}

\* --------------------------------------- claims on the link's channel table

\* C31: the reader loop handles a frame carrying any channel ID, the largest
\* one included, without an out-of-range fault: looking the ID up in the
\* table, clearing and setting its slot leave the process running.
C31_EveryIDHasSlot ==
    [][\A ft \in FrameTypes, id \in IDs :
          \A p \in (IF ft = RequestType THEN Payloads ELSE {NoPayload}) :
             Serve(ft, id, p) => pc' # "panic"]_vars

\* C34: once the reader loop has created a channel from a valid Request and
\* handed it over, the rest of the frame's processing has acted on the new
\* channel and not on the slot's previous occupant: the process is running
\* and the new channel is still in the table, ready for the next frame on
\* its ID.
C34_NewChannelKept ==
    (last.created /\ pc # "send") =>
        /\ pc # "panic"
        /\ chans[last.id] # Nil
        /\ chans[last.id] = got

\* ------------------------------------------- claims on the client's readers

\* C32: no reader of a link sends a channel on the client's accept queue
\* once Client.Close has closed the queue, and the queue is not closed under
\* a reader that waits in its send.
C32_NoSendAfterClose ==
    [][/\ \A l \in 1 .. Len(ServerList) :
             ClientServeRequest(l) => acc.closes = 0
       /\ (acc'.closes > acc.closes =>
              \A l \in DOMAIN lobj : lobj[l].rd # "send")]_vars

\* C33: every call of Link.Close returns in the end, also when the reader
\* loop waits to hand a new channel to the accept queue and no caller is in
\* Client.Accept. (A process stopped by a panic is left aside.)
C33_LinkCloseReturns ==
    (closer.pc = "wait") ~> (closer.pc = "returned" \/ rd = "panic")

\* The Links whose reader loop is running.
Running == {l \in DOMAIN lobj : lobj[l].rd \in {"read", "send"}}

\* C35: every Link whose reader loop is running is the Link stored in the
\* client's map under the key of its server: no Link is left running once
\* another Link has been installed for the same server.
C35_RunningLinkIsMapped ==
    \A l \in Running : links[lobj[l].srv] = l

\* ------------------------------------------- claims on the managed transport

\* C36: every call of ManagedTransport.Close returns in the end and leaves
\* the mutex released (so that later Read, Write, IsClosing and
\* updateTransport calls go through), with isClosing set and doneChan closed
\* exactly once.
C36_CloseReturns ==
    \A j \in MtClosers :
        (mtCl[j] = "lock") ~>
            (mtCl[j] = "returned" /\ mtMu.w = "free" /\ mtClosing /\ mtDone = 1)

AppRunning(port) == port = AppPort /\ rApp \in {"opened", "serving"}

\* C38: Router.destroyLoop on a loop whose port is bound by a running ServeApp
\* (a static port) removes only that loop and leaves the port and its other
\* loops bound; on any other port it closes the port; the rule of the loop is
\* removed in both cases, and no other port changes.
C38_DestroyLoop ==
    [][\A port \in RouterPorts, raddr \in RAddrs :
          DestroyLoop(port, raddr) =>
              /\ <<port, raddr>> \notin rRules'
              /\ \A q \in RouterPorts \ {port} : rPorts'[q] = rPorts[q]
              /\ IF AppRunning(port)
                 THEN rPorts'[port] = [open |-> TRUE,
                                       loops |-> rPorts[port].loops \ {raddr}]
                 ELSE rPorts'[port] = NoPort]_vars

\* The other half of C38: a port is in staticPorts exactly while it is bound
\* by a running ServeApp.
C38_StaticWhileServed ==
    \A port \in RouterPorts : port \in rStatic <=> AppRunning(port)

\* C39: Router.CreateLoop returns a local address and a nil error only if the
\* loop was confirmed or set up, and returns an error whenever the
\* confirmation or the setup failed.
C39_CreateLoopError ==
    crRes.kind # "none" =>
        /\ (crRes.err = "nil" => crRes.laddr /\ crRes.stepOK)
        /\ (~crRes.stepOK => crRes.err # "nil")

====
